---- MODULE Spec2Model ----
(***************************************************************************)
(* mulerun_crawl: the reconciliation engine (DatabaseStorage.save_agents   *)
(* on a PostgreSQL store) and the entry points that drive it: the API      *)
(* task (run_crawl_task), the API's scheduled job (SchedulerManager.       *)
(* _crawl_job -> run_crawl_sync), the command line's once mode (main) and  *)
(* its daemon job (CrawlScheduler._crawl_job).                             *)
(*                                                                         *)
(* The store is modelled at statement level.  Every save_agents call runs  *)
(* in its own transaction (get_connection): its writes go to a private     *)
(* write set, a statement reads the committed rows overlaid with the       *)
(* transaction's own writes (PostgreSQL READ COMMITTED), a row written by  *)
(* one open transaction blocks writers of the same row until it ends, and  *)
(* commit publishes the write set while rollback drops it.                 *)
(*                                                                         *)
(* MuleRunCrawler.crawl() is modelled on its own (SpecCrawl): the retry    *)
(* loop around the list page with its browser handles, the two extractors, *)
(* the detail pages and the field mapping that produces the batch.         *)
(* Two stages of crawl() are also followed step by step from the state    *)
(* the first successful navigation leaves: the scrolling and the Top       *)
(* Picks carousel loop (SpecPicks), and the detail page of each item       *)
(* (SpecEnrich); the Top Picks loop is followed once more on a carousel    *)
(* that never runs out of cards, with its poll after each click            *)
(* (SpecCarousel).  The API's SchedulerManager is modelled by its calls    *)
(* (SpecManager), and the API task once more with cancellation of the     *)
(* coroutine that awaits the crawl (SpecTask).                             *)
(***************************************************************************)
EXTENDS Integers, Sequences, FiniteSets, TLC

\* ---- bounds of the model ------------------------------------------------
MaxRuns == 2        \* runs triggered in one behaviour
MaxBatch == 2       \* records in one crawled batch

Runs == 1..MaxRuns
Links == {"/a", "/b"}

\* The mapped records a crawl can return (crawler.py 1087-1095): link and
\* name are non-empty (1113), rank is an integer.  The four records give a
\* link two names and two ranks, two links the same rank, and (two records
\* of one link) a batch that names a link twice: crawl() concatenates Top
\* Picks and Trending without removing a link they share (1050).
Records ==
  { [link |-> "/a", name |-> "Alpha",    rank |-> 1],
    [link |-> "/a", name |-> "Alpha v2", rank |-> 2],
    [link |-> "/b", name |-> "Beta",     rank |-> 2],
    [link |-> "/b", name |-> "Beta",     rank |-> 1] }
Batches == UNION {[1..n -> Records] : n \in 0..MaxBatch}

BatchLinks(b) == {b[i].link : i \in 1..Len(b)}

\* ---- the persisted schema (database.py 64-90) ---------------------------
\* agents: one row per link.  A link without a row maps to NoRow.
NoRow == [exists |-> FALSE, name |-> "", rank |-> 0, is_active |-> FALSE,
          first_seen |-> 0, last_updated |-> 0]
NoAgents == [l \in Links |-> NoRow]

\* The tables are created IF NOT EXISTS, so a behaviour starts on an empty
\* store or on what earlier runs left.  EarlierStore is what two earlier
\* calls leave: save_agents([/b], -3) in a transaction begun at -2, then
\* save_agents([/a], -1) in one begun at 0, which deactivated /b.
EarlierAgents ==
  [l \in Links |->
     IF l = "/a"
       THEN [exists |-> TRUE, name |-> "Alpha", rank |-> 1, is_active |-> TRUE,
             first_seen |-> 0, last_updated |-> -1]
       ELSE [exists |-> TRUE, name |-> "Beta", rank |-> 1, is_active |-> FALSE,
             first_seen |-> -2, last_updated |-> -1]]
EarlierHistory ==
  << [agent_link |-> "/b", rank |-> 1, crawl_time |-> -3],
     [agent_link |-> "/a", rank |-> 1, crawl_time |-> -1] >>
EarlierBatch == << [link |-> "/a", name |-> "Alpha", rank |-> 1] >>

InitialStores ==
  { <<NoAgents, <<>>, <<>>>>, <<EarlierAgents, EarlierHistory, EarlierBatch>> }

\* Python values bound to the names removed_agents / new_agents.
Unbound == [tag |-> "unbound", val |-> {}]
PyNone == [tag |-> "None", val |-> {}]
PyList(s) == [tag |-> "list", val |-> s]

VARIABLES
  agents,          \* committed agents table: link -> row
  rank_history,    \* committed rank_history table, in insertion order
  now,             \* the wall clock; it advances past every crawl_time read
  started,         \* number of runs triggered so far
  queue,           \* crawl_service.executor's work queue (max_workers = 1)
  last_batch,      \* batch of the most recently committed save_agents call
  kind,            \* run -> entry point that triggered it
  pc,              \* run -> position in its entry point
  task_status,     \* run -> TaskService status of the API task
  batch,           \* run -> agents, the list crawl_agents() returned
  crawl_time,      \* run -> crawl_time passed to save_agents
  removed_agents,  \* run -> value bound to removed_agents
  new_agents,      \* run -> value bound to new_agents
  outcome,         \* run -> what the run reported to its trigger
  sent,            \* run -> FeishuNotifier methods the run has called
  existing_links,  \* run -> save_agents' existing_links
  idx,             \* run -> position of save_agents' loop over the batch
  tx_agents,       \* run -> agents rows written by the open transaction
  tx_hist,         \* run -> rank_history rows inserted by the open transaction
  tx_start,        \* run -> CURRENT_TIMESTAMP of the open transaction
  pre_agents,      \* run -> committed agents when the call began
  pre_history,     \* run -> committed rank_history when the call began
  committed,       \* run -> the run's save_agents call has committed
  \* one MuleRunCrawler object and the locals of its crawl() call
  cpc,             \* position in crawl()
  attempt,         \* the retry loop's attempt (0-based, as range() gives it)
  playwright,      \* self.playwright is set
  browser,         \* self.browser: 0 for None, else the browser's number
  page,            \* self.page is set
  launched,        \* browsers launched so far
  live,            \* browsers launched and not yet closed
  navigated,       \* the browser each page.goto ran in, one entry per try
  sleeps,          \* time.sleep(retry_delay) calls made
  all_agents,      \* top_picks + trending_items, then with the detail fields
  mapped_agents,   \* the list crawl() returns
  cut,             \* an extractor stopped early on an error and returned
  \* _scroll_page and the page it scrolls
  scrolls,         \* scrolls performed
  elements,        \* elements the page has loaded
  stale,           \* consecutive scrolls so far that loaded nothing new
  \* the locals of _extract_top_picks
  top_picks,       \* the records captured so far
  seen_urls,       \* seen_urls
  click_count,     \* click_count
  visible,         \* the cards the carousel shows
  target_items,    \* target_items of the last pass
  \* the enrichment loop and _extract_detail_page_info
  didx,            \* items enriched so far
  detail_pages,    \* detail pages open
  ki,              \* a KeyboardInterrupt was raised in crawl()
  detail_info,     \* the detail_info of the item being enriched
  detail_errors,   \* items whose enrichment logged an error
  \* the list reads and the poll loop after a click
  reads,           \* reads of the card list in the current look
  empty_stop,      \* the extractor that found no card and gave up
  waited,          \* polls made since the click (waited / wait_interval)
  stable_count,    \* stable_count
  new_items_found, \* new_items_found
  prev_poll,       \* what the poll before the last one read
  last_poll,       \* what the last poll read
  trending_items,  \* the list _extract_trending_ai_pics returns
  \* the API's SchedulerManager
  scheduler,       \* self.scheduler: "none", "running" or "stopped"
  enabled,         \* self.enabled
  interval_hours,  \* self.interval_hours
  job,             \* hours of the crawl_job trigger, 0 without a job
  last_run_time    \* self.last_run_time, 0 for None

dbVars == <<agents, rank_history, last_batch>>
sysVars == <<now, started, queue>>
runVars == <<kind, pc, task_status, batch, crawl_time, removed_agents,
             new_agents, outcome, sent>>
txVars == <<existing_links, idx, tx_agents, tx_hist, tx_start, pre_agents,
            pre_history, committed>>
scrollVars == <<scrolls, elements, stale>>
pickVars == <<top_picks, seen_urls, click_count, visible, target_items>>
enrichVars == <<didx, detail_pages, ki, detail_info, detail_errors>>
loopVars == <<reads, empty_stop, waited, stable_count, new_items_found,
              prev_poll, last_poll, trending_items>>
managerVars == <<scheduler, enabled, interval_hours, job, last_run_time>>
crawlVars == <<cpc, attempt, playwright, browser, page, launched, live,
               navigated, sleeps, all_agents, mapped_agents, cut,
               scrollVars, pickVars, enrichVars>>
vars == <<dbVars, sysVars, runVars, txVars, crawlVars, loopVars, managerVars>>

\* The store and the runs before any trigger.
ServiceInit ==
  /\ \E st \in InitialStores :
       /\ agents = st[1]
       /\ rank_history = st[2]
       /\ last_batch = st[3]
  /\ now = 1
  /\ started = 0
  /\ queue = <<>>
  /\ kind = [r \in Runs |-> "none"]
  /\ pc = [r \in Runs |-> "idle"]
  /\ task_status = [r \in Runs |-> "none"]
  /\ batch = [r \in Runs |-> <<>>]
  /\ crawl_time = [r \in Runs |-> 0]
  /\ removed_agents = [r \in Runs |-> Unbound]
  /\ new_agents = [r \in Runs |-> Unbound]
  /\ outcome = [r \in Runs |-> "none"]
  /\ sent = [r \in Runs |-> {}]
  /\ existing_links = [r \in Runs |-> {}]
  /\ idx = [r \in Runs |-> 0]
  /\ tx_agents = [r \in Runs |-> NoAgents]
  /\ tx_hist = [r \in Runs |-> <<>>]
  /\ tx_start = [r \in Runs |-> 0]
  /\ pre_agents = [r \in Runs |-> NoAgents]
  /\ pre_history = [r \in Runs |-> <<>>]
  /\ committed = [r \in Runs |-> FALSE]

\* The locals of _scroll_page and _extract_top_picks before they run.
ListInit ==
  /\ scrolls = 0
  /\ elements = 0
  /\ stale = 0
  /\ top_picks = <<>>
  /\ seen_urls = {}
  /\ click_count = 0
  /\ visible = <<>>
  /\ target_items = <<>>

\* The poll loop and the list reads before they run.
LoopInit ==
  /\ reads = 0
  /\ empty_stop = "none"
  /\ waited = 0
  /\ stable_count = 0
  /\ new_items_found = FALSE
  /\ prev_poll = "none"
  /\ last_poll = "none"
  /\ trending_items = <<>>

\* SchedulerManager.__init__
ManagerInit ==
  /\ scheduler = "none"
  /\ enabled = FALSE
  /\ interval_hours = 24
  /\ job = 0
  /\ last_run_time = 0

\* The locals of the detail loop before it runs.
DetailInit ==
  /\ didx = 0
  /\ detail_pages = 0
  /\ detail_info = [agent_name |-> [tag |-> "None", val |-> ""],
                    description |-> [tag |-> "None", val |-> ""]]
  /\ detail_errors = {}
  /\ ki = FALSE

Init ==
  /\ ServiceInit
  /\ cpc = "new"
  /\ attempt = 0
  /\ playwright = FALSE
  /\ browser = 0
  /\ page = FALSE
  /\ launched = 0
  /\ live = {}
  /\ navigated = <<>>
  /\ sleeps = 0
  /\ all_agents = <<>>
  /\ mapped_agents = <<>>
  /\ cut = FALSE
  /\ ListInit
  /\ DetailInit
  /\ LoopInit
  /\ ManagerInit

InFlight(r) == pc[r] \notin {"idle", "done"}


\* ---- triggers -----------------------------------------------------------
\* Run slots are used in order, so r is the next unused slot.
Fresh(r) == r = started + 1

\* The API service (run_api.py) and the command line (main.py) are two
\* programs on one database.  The command line runs one crawl at a time and
\* not while the service has a run in flight.
NoneInFlight == \A r \in Runs : ~InFlight(r)
ServiceOnly == \A r \in Runs : InFlight(r) => kind[r] \in {"api", "sched"}

\* routes/crawl.py start_crawl: create_task() files the task as pending and
\* run_crawl_task(task_id) is handed to the background tasks.
StartCrawl(r) ==
  /\ Fresh(r)
  /\ ServiceOnly
  /\ started' = r
  /\ kind' = [kind EXCEPT ![r] = "api"]
  /\ task_status' = [task_status EXCEPT ![r] = "pending"]
  /\ pc' = [pc EXCEPT ![r] = "pending"]
  /\ UNCHANGED <<crawlVars, loopVars, managerVars, dbVars, now, queue, batch, crawl_time, removed_agents,
                 new_agents, outcome, sent, txVars>>

\* run_crawl_task that leaves the task pending.
RunCrawlTaskSkipsStart(r) ==
  /\ pc[r] = "pending"
  /\ queue' = Append(queue, r)
  /\ pc' = [pc EXCEPT ![r] = "queued"]
  /\ UNCHANGED <<crawlVars, loopVars, managerVars, dbVars, now, started, kind,
                 task_status, batch, crawl_time, removed_agents, new_agents,
                 outcome, sent, txVars>>

\* run_crawl_task: start_task marks the task running, then crawl_agents is
\* submitted to the module's ThreadPoolExecutor(max_workers=1).
RunCrawlTask(r) ==
  /\ pc[r] = "pending"
  /\ task_status' = [task_status EXCEPT ![r] = "running"]
  /\ queue' = Append(queue, r)
  /\ pc' = [pc EXCEPT ![r] = "queued"]
  /\ UNCHANGED <<crawlVars, loopVars, managerVars, dbVars, now, started, kind, batch, crawl_time,
                 removed_agents, new_agents, outcome, sent, txVars>>

\* The executor's single worker is busy while an API crawl is running,
\* whether or not its coroutine still awaits it.
WorkerBusy ==
  \E r \in Runs : kind[r] = "api" /\ pc[r] \in {"crawling", "abandoned"}

\* The single worker takes the oldest submitted crawl when it is free.
ExecutorRun(r) ==
  /\ pc[r] = "queued"
  /\ queue # <<>>
  /\ Head(queue) = r
  /\ ~WorkerBusy
  /\ queue' = Tail(queue)
  /\ pc' = [pc EXCEPT ![r] = "crawling"]
  /\ UNCHANGED <<crawlVars, loopVars, managerVars, dbVars, now, started, kind, task_status, batch, crawl_time,
                 removed_agents, new_agents, outcome, sent, txVars>>

\* An instance of the scheduled job is running (APScheduler max_instances=1
\* skips a trigger while one is).
JobRunning(k) == \E r \in Runs : kind[r] = k /\ InFlight(r)

\* SchedulerManager._crawl_job fires: run_crawl_sync is started on the event
\* loop's default executor (run_in_executor(None, ...)), not on
\* crawl_service.executor.
SchedulerFire(r) ==
  /\ Fresh(r)
  /\ ServiceOnly
  /\ ~JobRunning("sched")
  /\ started' = r
  /\ kind' = [kind EXCEPT ![r] = "sched"]
  /\ pc' = [pc EXCEPT ![r] = "crawling"]
  /\ UNCHANGED <<crawlVars, loopVars, managerVars, dbVars, now, queue, task_status, batch, crawl_time,
                 removed_agents, new_agents, outcome, sent, txVars>>

\* main.py --mode once calls crawl_agents() directly.
MainOnce(r) ==
  /\ Fresh(r)
  /\ NoneInFlight
  /\ started' = r
  /\ kind' = [kind EXCEPT ![r] = "once"]
  /\ pc' = [pc EXCEPT ![r] = "crawling"]
  /\ UNCHANGED <<crawlVars, loopVars, managerVars, dbVars, now, queue, task_status, batch, crawl_time,
                 removed_agents, new_agents, outcome, sent, txVars>>

\* CrawlScheduler._crawl_job (daemon mode): crawl_time is read before the
\* crawl; the BlockingScheduler runs one instance at a time.
DaemonJob(r) ==
  /\ Fresh(r)
  /\ NoneInFlight
  /\ started' = r
  /\ kind' = [kind EXCEPT ![r] = "daemon"]
  /\ crawl_time' = [crawl_time EXCEPT ![r] = now]
  /\ now' = now + 1
  /\ pc' = [pc EXCEPT ![r] = "crawling"]
  /\ UNCHANGED <<crawlVars, loopVars, managerVars, dbVars, queue, task_status, batch, removed_agents,
                 new_agents, outcome, sent, txVars>>

\* ---- the crawl ----------------------------------------------------------
\* Every batch, empty or not, goes on to the store.
AfterCrawlSavesEmpty(k, b) == IF k = "daemon" THEN "select" ELSE "open"

\* Where a run goes when crawl_agents() returned b: an empty list raises in
\* run_crawl_task / run_crawl_sync and returns early in main and in the
\* daemon job; otherwise the run goes on to the store.
AfterCrawl(k, b) ==
  IF b = <<>>
    THEN IF k \in {"api", "sched"} THEN "except" ELSE "nodata"
    ELSE IF k = "daemon" THEN "select" ELSE "open"

\* crawl_agents() returns a batch.
CrawlReturn(r) ==
  /\ pc[r] = "crawling"
  /\ \E b \in Batches :
       /\ batch' = [batch EXCEPT ![r] = b]
       /\ pc' = [pc EXCEPT ![r] = AfterCrawl(kind[r], b)]
  /\ UNCHANGED <<crawlVars, loopVars, managerVars, dbVars, sysVars, kind, task_status, crawl_time,
                 removed_agents, new_agents, outcome, sent, txVars>>

\* crawl_agents() raises (navigation retries exhausted, extraction error).
CrawlRaise(r) ==
  /\ pc[r] = "crawling"
  /\ pc' = [pc EXCEPT ![r] = "except"]
  /\ UNCHANGED <<crawlVars, loopVars, managerVars, dbVars, sysVars, kind, task_status, batch, crawl_time,
                 removed_agents, new_agents, outcome, sent, txVars>>

\* storage = DatabaseStorage(); crawl_time = datetime.now()
OpenStorage(r) ==
  /\ pc[r] = "open"
  /\ crawl_time' = [crawl_time EXCEPT ![r] = now]
  /\ now' = now + 1
  /\ pc' = [pc EXCEPT ![r] = "select"]
  /\ UNCHANGED <<crawlVars, loopVars, managerVars, dbVars, started, queue, kind, task_status, batch,
                 removed_agents, new_agents, outcome, sent, txVars>>

\* DatabaseStorage() raises (_init_pool re-raises a connection failure).
OpenStorageFails(r) ==
  /\ pc[r] = "open"
  /\ pc' = [pc EXCEPT ![r] = "except"]
  /\ UNCHANGED <<crawlVars, loopVars, managerVars, dbVars, sysVars, kind, task_status, batch, crawl_time,
                 removed_agents, new_agents, outcome, sent, txVars>>


\* ---- save_agents: one transaction, statement by statement --------------
\* What a statement of run r's transaction sees of link l: its own write if
\* it has one, else the committed row.
View(r, l) == IF tx_agents[r][l].exists THEN tx_agents[r][l] ELSE agents[l]

\* Another open transaction holds the row lock of link l.
Locked(r, l) == \E o \in Runs \ {r} : tx_agents[o][l].exists

\* SELECT link FROM agents WHERE is_active = TRUE
SelectActiveLinks(tbl) == {l \in Links : tbl[l].exists /\ tbl[l].is_active}

\* existing_links - current_links
DisappearedLinks(existing, b) == existing \ BatchLinks(b)

\* Deactivated with the last_updated assignment dropped from the SET list.
DeactivatedNoStamp(row, t) == [row EXCEPT !.is_active = FALSE]

\* UPDATE agents SET is_active = FALSE, last_updated = %s
Deactivated(row, t) == [row EXCEPT !.is_active = FALSE, !.last_updated = t]

\* Upserted with is_active = TRUE dropped from the DO UPDATE SET list.
UpsertedKeepsFlag(row, rec, t, ts) ==
  IF row.exists
    THEN [row EXCEPT !.name = rec.name, !.rank = rec.rank, !.last_updated = t]
    ELSE [exists |-> TRUE, name |-> rec.name, rank |-> rec.rank,
          is_active |-> TRUE, first_seen |-> ts, last_updated |-> t]

\* Upserted with first_seen added to the DO UPDATE SET list.
UpsertedResetsFirstSeen(row, rec, t, ts) ==
  [exists |-> TRUE, name |-> rec.name, rank |-> rec.rank,
   is_active |-> TRUE, first_seen |-> ts, last_updated |-> t]

\* INSERT ... ON CONFLICT (link) DO UPDATE: a new row takes the column
\* defaults (first_seen = CURRENT_TIMESTAMP, the transaction's start time ts),
\* an existing row keeps first_seen and takes the record's fields.
Upserted(row, rec, t, ts) ==
  IF row.exists
    THEN [row EXCEPT !.name = rec.name, !.rank = rec.rank,
                     !.is_active = TRUE, !.last_updated = t]
    ELSE [exists |-> TRUE, name |-> rec.name, rank |-> rec.rank,
          is_active |-> TRUE, first_seen |-> ts, last_updated |-> t]

\* HistoryRow with the link of the other agent in agent_link.
HistoryRowOfOther(rec, t) ==
  [agent_link |-> IF rec.link = "/a" THEN "/b" ELSE "/a", rank |-> rec.rank,
   crawl_time |-> t]

\* INSERT INTO rank_history (agent_link, rank, crawl_time)
HistoryRow(rec, t) == [agent_link |-> rec.link, rank |-> rec.rank, crawl_time |-> t]

\* Publish replacing the table by the write set: rows the transaction did
\* not write are gone.
PublishOnlyWrites(tbl, w) == w

\* The committed agents table with write set w published.
Publish(tbl, w) == [l \in Links |-> IF w[l].exists THEN w[l] ELSE tbl[l]]

\* get_connection, normal exit: conn.commit()
ConnCommit(r) == <<Publish(agents, tx_agents[r]), rank_history \o tx_hist[r]>>

\* ConnRollback with the commit moved to the finally clause: the partial
\* write set is published on an exception too.
ConnRollbackPublishes(r) == ConnCommit(r)

\* get_connection, exception: conn.rollback()
ConnRollback(r) == <<agents, rank_history>>

\* save_agents has no return statement: the call evaluates to None.
SaveAgentsReturn == PyNone

TxPcs == {"select", "deactivate", "upsert", "history", "commit"}

\* The connection is taken and the first statement reads the active links.
TxSelect(r) ==
  /\ pc[r] = "select"
  /\ existing_links' = [existing_links EXCEPT ![r] = SelectActiveLinks(agents)]
  /\ tx_start' = [tx_start EXCEPT ![r] = now]
  /\ pre_agents' = [pre_agents EXCEPT ![r] = agents]
  /\ pre_history' = [pre_history EXCEPT ![r] = rank_history]
  /\ pc' = [pc EXCEPT ![r] = "deactivate"]
  /\ UNCHANGED <<crawlVars, loopVars, managerVars, dbVars, sysVars, kind, task_status, batch, crawl_time,
                 removed_agents, new_agents, outcome, sent, idx, tx_agents, tx_hist,
                 committed>>

\* The disappeared links are marked inactive (skipped when there are none).
TxDeactivate(r) ==
  /\ pc[r] = "deactivate"
  /\ LET d == DisappearedLinks(existing_links[r], batch[r]) IN
       /\ \A l \in d : ~Locked(r, l)
       /\ tx_agents' = [tx_agents EXCEPT ![r] =
            [l \in Links |-> IF l \in d
                               THEN Deactivated(View(r, l), crawl_time[r])
                               ELSE tx_agents[r][l]]]
  /\ idx' = [idx EXCEPT ![r] = 1]
  /\ pc' = [pc EXCEPT ![r] = "upsert"]
  /\ UNCHANGED <<crawlVars, loopVars, managerVars, dbVars, sysVars, kind, task_status, batch, crawl_time,
                 removed_agents, new_agents, outcome, sent, existing_links, tx_hist,
                 tx_start, pre_agents, pre_history, committed>>

\* The loop body's first statement: upsert of record idx.
TxUpsert(r) ==
  /\ pc[r] = "upsert"
  /\ LET rec == batch[r][idx[r]] IN
       /\ ~Locked(r, rec.link)
       /\ tx_agents' = [tx_agents EXCEPT ![r][rec.link] =
            Upserted(View(r, rec.link), rec, crawl_time[r], tx_start[r])]
  /\ pc' = [pc EXCEPT ![r] = "history"]
  /\ UNCHANGED <<crawlVars, loopVars, managerVars, dbVars, sysVars, kind, task_status, batch, crawl_time,
                 removed_agents, new_agents, outcome, sent, existing_links, idx,
                 tx_hist, tx_start, pre_agents, pre_history, committed>>

\* The loop body's second statement: the rank history row of record idx; the
\* foreign key needs the agents row to exist.
TxHistory(r) ==
  /\ pc[r] = "history"
  /\ LET rec == batch[r][idx[r]] IN
       /\ View(r, rec.link).exists
       /\ tx_hist' = [tx_hist EXCEPT ![r] = Append(@, HistoryRow(rec, crawl_time[r]))]
  /\ IF idx[r] = Len(batch[r])
       THEN /\ pc' = [pc EXCEPT ![r] = "commit"]
            /\ idx' = idx
       ELSE /\ pc' = [pc EXCEPT ![r] = "upsert"]
            /\ idx' = [idx EXCEPT ![r] = @ + 1]
  /\ UNCHANGED <<crawlVars, loopVars, managerVars, dbVars, sysVars, kind, task_status, batch, crawl_time,
                 removed_agents, new_agents, outcome, sent, existing_links,
                 tx_agents, tx_start, pre_agents, pre_history, committed>>

\* The with block ends: commit.
TxCommit(r) ==
  /\ pc[r] = "commit"
  /\ LET res == ConnCommit(r) IN
       /\ agents' = res[1]
       /\ rank_history' = res[2]
  /\ last_batch' = batch[r]
  /\ tx_agents' = [tx_agents EXCEPT ![r] = NoAgents]
  /\ tx_hist' = [tx_hist EXCEPT ![r] = <<>>]
  /\ committed' = [committed EXCEPT ![r] = TRUE]
  /\ pc' = [pc EXCEPT ![r] = "saved"]
  /\ UNCHANGED <<crawlVars, loopVars, managerVars, sysVars, kind, task_status, batch, crawl_time,
                 removed_agents, new_agents, outcome, sent, existing_links, idx,
                 tx_start, pre_agents, pre_history>>

\* A statement (or the commit) fails: rollback, and the error propagates.
TxFail(r) ==
  /\ pc[r] \in TxPcs
  /\ LET res == ConnRollback(r) IN
       /\ agents' = res[1]
       /\ rank_history' = res[2]
  /\ tx_agents' = [tx_agents EXCEPT ![r] = NoAgents]
  /\ tx_hist' = [tx_hist EXCEPT ![r] = <<>>]
  /\ pc' = [pc EXCEPT ![r] = "except"]
  /\ UNCHANGED <<crawlVars, loopVars, managerVars, last_batch, sysVars, kind, task_status, batch, crawl_time,
                 removed_agents, new_agents, outcome, sent, existing_links, idx,
                 tx_start, pre_agents, pre_history, committed>>

\* ---- after save_agents --------------------------------------------------
\* A Python value is truthy: None and the empty list are not.
Truthy(v) == v.tag = "list" /\ v.val # {}

\* The FeishuNotifier methods an entry point calls once removed and added
\* are bound: send_agent_removed_notification if removed is truthy; where
\* the entry point has an added branch (withAdded) and added is truthy, the
\* missing send_agent_added_notification raises before the summary;
\* otherwise send_crawl_summary(stats, crawl_time).
NotifierCalls(removed, added, withAdded) ==
  (IF Truthy(removed) THEN {"removed"} ELSE {})
    \cup (IF withAdded /\ Truthy(added) THEN {} ELSE {"summary"})

\* run_crawl_task / run_crawl_sync:
\*   removed_agents, new_agents = storage.save_agents(agents, crawl_time)
\* Unpacking None raises TypeError before any notifier call.  A 2-tuple
\* would bind both names; then the removed list is sent when non-empty, a
\* non-empty added list raises AttributeError (FeishuNotifier has no
\* send_agent_added_notification), and otherwise the summary is sent.
Unpack(r) ==
  /\ pc[r] = "saved"
  /\ kind[r] \in {"api", "sched"}
  /\ LET ret == SaveAgentsReturn IN
       IF ret.tag = "tuple"
         THEN /\ removed_agents' = [removed_agents EXCEPT ![r] = PyList(ret.val[1])]
              /\ new_agents' = [new_agents EXCEPT ![r] = PyList(ret.val[2])]
              /\ sent' = [sent EXCEPT ![r] =
                   NotifierCalls(PyList(ret.val[1]), PyList(ret.val[2]), TRUE)]
              /\ pc' = [pc EXCEPT ![r] =
                   IF ret.val[2] = {} THEN "success" ELSE "except"]
         ELSE /\ pc' = [pc EXCEPT ![r] = "except"]
              /\ UNCHANGED <<removed_agents, new_agents, sent>>
  /\ UNCHANGED <<crawlVars, loopVars, managerVars, dbVars, sysVars, kind, task_status, batch, crawl_time,
                 outcome, txVars>>

\* main (once mode): removed_agents = storage.save_agents(...); the summary
\* is sent; len(removed_agents) in the closing log raises TypeError on None.
MainAfterSave(r) ==
  /\ pc[r] = "saved"
  /\ kind[r] = "once"
  /\ LET ret == SaveAgentsReturn IN
       /\ removed_agents' = [removed_agents EXCEPT ![r] = ret]
       /\ sent' = [sent EXCEPT ![r] = NotifierCalls(ret, PyList({}), FALSE)]
       /\ pc' = [pc EXCEPT ![r] = IF ret.tag = "list" THEN "success" ELSE "except"]
  /\ UNCHANGED <<crawlVars, loopVars, managerVars, dbVars, sysVars, kind, task_status, batch, crawl_time,
                 new_agents, outcome, txVars>>

\* CrawlScheduler._crawl_job ignores save_agents' value and logs statistics.
DaemonAfterSave(r) ==
  /\ pc[r] = "saved"
  /\ kind[r] = "daemon"
  /\ pc' = [pc EXCEPT ![r] = "success"]
  /\ UNCHANGED <<crawlVars, loopVars, managerVars, dbVars, sysVars, kind, task_status, batch, crawl_time,
                 removed_agents, new_agents, outcome, sent, txVars>>

\* ---- the run ends -------------------------------------------------------
\* The run's locals go out of scope.
EndRun(r) ==
  /\ pc' = [pc EXCEPT ![r] = "done"]
  /\ kind' = [kind EXCEPT ![r] = "none"]
  /\ batch' = [batch EXCEPT ![r] = <<>>]
  /\ crawl_time' = [crawl_time EXCEPT ![r] = 0]
  /\ removed_agents' = [removed_agents EXCEPT ![r] = Unbound]
  /\ new_agents' = [new_agents EXCEPT ![r] = Unbound]
  /\ sent' = [sent EXCEPT ![r] = {}]
  /\ existing_links' = [existing_links EXCEPT ![r] = {}]
  /\ idx' = [idx EXCEPT ![r] = 0]
  /\ tx_start' = [tx_start EXCEPT ![r] = 0]
  /\ pre_agents' = [pre_agents EXCEPT ![r] = NoAgents]
  /\ pre_history' = [pre_history EXCEPT ![r] = <<>>]
  /\ UNCHANGED <<crawlVars, loopVars, managerVars, dbVars, sysVars, tx_agents, tx_hist, committed>>

\* What an exception reports: run_crawl_task calls fail_task and re-raises,
\* run_crawl_sync and main re-raise, the daemon job only logs it.
FailureOutcome(k) == IF k = "daemon" THEN "logged" ELSE "failed"

\* The except handler of the entry point.
ReportFailure(r) ==
  /\ pc[r] = "except"
  /\ outcome' = [outcome EXCEPT ![r] = FailureOutcome(kind[r])]
  /\ task_status' = [task_status EXCEPT ![r] = IF kind[r] = "api" THEN "failed" ELSE @]
  /\ EndRun(r)

\* main and the daemon job return early on an empty batch.
ReturnNoData(r) ==
  /\ pc[r] = "nodata"
  /\ outcome' = [outcome EXCEPT ![r] = "nodata"]
  /\ UNCHANGED task_status
  /\ EndRun(r)

\* The entry point returns normally (run_crawl_task: complete_task).
ReportSuccess(r) ==
  /\ pc[r] = "success"
  /\ outcome' = [outcome EXCEPT ![r] = "success"]
  /\ task_status' = [task_status EXCEPT ![r] = IF kind[r] = "api" THEN "completed" ELSE @]
  /\ EndRun(r)

Next ==
  \E r \in Runs :
    \/ StartCrawl(r)
    \/ RunCrawlTask(r)
    \/ ExecutorRun(r)
    \/ SchedulerFire(r)
    \/ MainOnce(r)
    \/ DaemonJob(r)
    \/ CrawlReturn(r)
    \/ CrawlRaise(r)
    \/ OpenStorage(r)
    \/ OpenStorageFails(r)
    \/ TxSelect(r)
    \/ TxDeactivate(r)
    \/ TxUpsert(r)
    \/ TxHistory(r)
    \/ TxCommit(r)
    \/ TxFail(r)
    \/ Unpack(r)
    \/ MainAfterSave(r)
    \/ DaemonAfterSave(r)
    \/ ReportFailure(r)
    \/ ReturnNoData(r)
    \/ ReportSuccess(r)

Spec == Init /\ [][Next]_vars

\* The runs of one entry point driven one after another (the daemon's
\* blocking scheduler, repeated once-mode invocations, API tasks awaited in
\* turn): a run is triggered only when no other run is in flight.
NextSeq ==
  \E r \in Runs :
    \/ NoneInFlight /\ StartCrawl(r)
    \/ RunCrawlTask(r)
    \/ ExecutorRun(r)
    \/ NoneInFlight /\ SchedulerFire(r)
    \/ NoneInFlight /\ MainOnce(r)
    \/ NoneInFlight /\ DaemonJob(r)
    \/ CrawlReturn(r)
    \/ CrawlRaise(r)
    \/ OpenStorage(r)
    \/ OpenStorageFails(r)
    \/ TxSelect(r)
    \/ TxDeactivate(r)
    \/ TxUpsert(r)
    \/ TxHistory(r)
    \/ TxCommit(r)
    \/ TxFail(r)
    \/ Unpack(r)
    \/ MainAfterSave(r)
    \/ DaemonAfterSave(r)
    \/ ReportFailure(r)
    \/ ReturnNoData(r)
    \/ ReportSuccess(r)

SpecSeq == Init /\ [][NextSeq]_vars


\* ---- the API task under cancellation -------------------------------------
\* The coroutine of run_crawl_task is cancelled while it awaits
\* run_in_executor: asyncio.CancelledError is raised at the await.  It is a
\* BaseException, so 'except Exception' does not catch it and fail_task is
\* not called.  A crawl still waiting in the executor's queue is cancelled
\* with the future; one that is running goes on in its thread.
Cancelled(r) ==
  /\ kind[r] = "api"
  /\ pc[r] \in {"queued", "crawling"}
  /\ queue' = SelectSeq(queue, LAMBDA q : q # r)
  /\ pc' = [pc EXCEPT ![r] = IF pc[r] = "crawling" THEN "abandoned"
                             ELSE "cancelled"]
  /\ outcome' = [outcome EXCEPT ![r] = "cancelled"]
  /\ UNCHANGED <<crawlVars, loopVars, managerVars, dbVars, now, started, kind,
                 task_status, batch, crawl_time, removed_agents, new_agents,
                 sent, txVars>>

\* The cancelled coroutine is gone; an abandoned crawl ends in its thread
\* and its result is dropped.
CancelledEnds(r) ==
  /\ pc[r] \in {"cancelled", "abandoned"}
  /\ UNCHANGED <<outcome, task_status>>
  /\ EndRun(r)

NextTask ==
  \E r \in Runs :
    \/ StartCrawl(r)
    \/ RunCrawlTask(r)
    \/ ExecutorRun(r)
    \/ Cancelled(r)
    \/ CancelledEnds(r)
    \/ CrawlReturn(r)
    \/ CrawlRaise(r)
    \/ OpenStorage(r)
    \/ OpenStorageFails(r)
    \/ TxSelect(r)
    \/ TxDeactivate(r)
    \/ TxUpsert(r)
    \/ TxHistory(r)
    \/ TxCommit(r)
    \/ TxFail(r)
    \/ Unpack(r)
    \/ ReportFailure(r)

\* The API's crawl tasks, each of which may be cancelled while it awaits
\* its crawl.
SpecTask == Init /\ [][NextTask]_vars


\* ---- queries ------------------------------------------------------------
\* The orders in which a scan can meet the rows of agents.
Scans == {sc \in [1..Cardinality(Links) -> Links] :
            \A i, j \in DOMAIN sc : i # j => sc[i] # sc[j]}

\* LIMIT values; 0 stands for a falsy limit (None or 0): no LIMIT clause.
Limits == 0..Cardinality(Links)

\* WHERE is_active = TRUE, in scan order.
ActiveRows(tbl, sc) ==
  LET Hit(l) == tbl[l].exists /\ tbl[l].is_active
      hits == SelectSeq(sc, Hit)
  IN [i \in 1..Len(hits) |-> [link |-> hits[i], rank |-> tbl[hits[i]].rank]]

RECURSIVE InsertByRank(_, _)
InsertByRank(row, sorted) ==
  IF sorted = <<>> THEN <<row>>
  ELSE IF row.rank < Head(sorted).rank THEN <<row>> \o sorted
  ELSE <<Head(sorted)>> \o InsertByRank(row, Tail(sorted))

\* ORDER BY rank ASC (rows of equal rank in any order the scan gives).
RECURSIVE OrderByRank(_)
OrderByRank(rows) ==
  IF rows = <<>> THEN <<>>
  ELSE InsertByRank(Head(rows), OrderByRank(Tail(rows)))

\* get_active_agents(limit) on the committed table.
get_active_agents(tbl, sc, limit) ==
  LET sorted == OrderByRank(ActiveRows(tbl, sc))
  IN IF limit # 0 /\ limit < Len(sorted) THEN SubSeq(sorted, 1, limit) ELSE sorted

\* ---- crawl(): strings, URLs and the rank token --------------------------
\* A text is a sequence of one-character strings.
Digits == {"0", "1", "2", "3", "4", "5", "6", "7", "8", "9"}
DigitVal(c) ==
  CASE c = "0" -> 0 [] c = "1" -> 1 [] c = "2" -> 2 [] c = "3" -> 3
    [] c = "4" -> 4 [] c = "5" -> 5 [] c = "6" -> 6 [] c = "7" -> 7
    [] c = "8" -> 8 [] c = "9" -> 9

Front(s) == SubSeq(s, 1, Len(s) - 1)

\* str.strip(): leading and trailing blanks removed.
RECURSIVE Strip(_)
Strip(s) ==
  IF s = <<>> THEN s
  ELSE IF Head(s) = " " THEN Strip(Tail(s))
  ELSE IF s[Len(s)] = " " THEN Strip(Front(s))
  ELSE s

\* re.search(r'(\d+)', s).group(1): the leftmost longest run of digits;
\* <<>> stands for no match.
RECURSIVE SkipToDigit(_)
SkipToDigit(s) ==
  IF s = <<>> \/ Head(s) \in Digits THEN s ELSE SkipToDigit(Tail(s))

RECURSIVE TakeDigits(_)
TakeDigits(s) ==
  IF s = <<>> \/ Head(s) \notin Digits THEN <<>>
  ELSE <<Head(s)>> \o TakeDigits(Tail(s))

re_search_digits(s) == TakeDigits(SkipToDigit(s))

\* int() of a run of digits.
RECURSIVE IntOf(_)
IntOf(ds) ==
  IF ds = <<>> THEN 0 ELSE IntOf(Front(ds)) * 10 + DigitVal(ds[Len(ds)])

\* An href or URL: host "" for a relative reference; NoUrl is ''.
BaseUrl == "https://mulerun.com"
Rel(path) == [host |-> "", path |-> path]
Abs(path) == [host |-> BaseUrl, path |-> path]
NoUrl == Rel("")

\* urljoin(self.base_url, href) if href else ''
urljoin(href) ==
  IF href = NoUrl THEN NoUrl
  ELSE IF href.host # "" THEN href
  ELSE [host |-> BaseUrl, path |-> href.path]

\* An optional string: None, or a str.
NoneStr == [tag |-> "None", val |-> ""]
Str(s) == [tag |-> "str", val |-> s]
TruthyStr(v) == v.tag = "str" /\ v.val # ""

\* The 'rank' entry of an extracted item: the key is missing (Trending), or
\* it holds the card's rank text.
NoRankKey == [key |-> FALSE, text |-> <<>>]
RankKey(text) == [key |-> TRUE, text |-> text]

\* ---- crawl(): what the list page shows -----------------------------------
MaxTop == 2         \* Top Picks cards on the page
MaxTrend == 2       \* Trending cards on the page

\* Top Picks cards: href, the text of span.font-anton, the title.  /a is
\* shown twice, once with an absolute href; one rank text reads 0, one has
\* no digit, one card has no href, one no title.
TopCards ==
  { [href |-> Rel("/a"), rank_text |-> <<" ", "#", "1", " ">>, title |-> "Alpha"],
    [href |-> Abs("/a"), rank_text |-> <<"1", "2">>, title |-> "Alpha"],
    [href |-> Rel("/b"), rank_text |-> <<"#", "3", " ", "o", "f", " ", "5", "0">>,
     title |-> ""],
    [href |-> Rel("/c"), rank_text |-> <<"0">>, title |-> "Gamma"],
    [href |-> Rel("/d"), rank_text |-> <<"N", "e", "w">>, title |-> "Delta"],
    [href |-> NoUrl, rank_text |-> <<"4">>, title |-> "Loose"] }

\* Trending cards: href and title.  /a is also a Top Pick, /e is shown twice.
TrendCards ==
  { [href |-> Rel("/a"), title |-> "Alpha"],
    [href |-> Rel("/e"), title |-> "Echo"],
    [href |-> Rel("/e"), title |-> ""],
    [href |-> NoUrl, title |-> "Loose"] }

TopCardLists == UNION {[1..n -> TopCards] : n \in 0..MaxTop}
TrendCardLists == UNION {[1..n -> TrendCards] : n \in 0..MaxTrend}

\* h1 of a detail page: not found (None), empty, or a name.
DetailNames == {NoneStr, Str(""), Str("Pro")}

\* ---- crawl(): extraction -------------------------------------------------
\* The cards with a URL and a rank number, as items_with_rank.
ItemsWithRank(cards) ==
  LET Ranked(c) == urljoin(c.href) # NoUrl
                     /\ re_search_digits(Strip(c.rank_text)) # <<>>
      hits == SelectSeq(cards, Ranked)
  IN [i \in 1..Len(hits) |->
        [url |-> urljoin(hits[i].href),
         rank |-> IntOf(re_search_digits(Strip(hits[i].rank_text))),
         rank_text |-> Strip(hits[i].rank_text),
         title |-> hits[i].title]]

\* items_with_rank.sort(key=lambda x: x['rank']): a stable sort.
RECURSIVE SortByRank(_)
SortByRank(items) ==
  IF items = <<>> THEN <<>>
  ELSE InsertByRank(items[Len(items)], SortByRank(Front(items)))

\* The first pass takes the 6 cards of lowest rank.
TopPicksPage == 6
FirstPage(items) ==
  IF Len(items) > TopPicksPage THEN SubSeq(items, 1, TopPicksPage) ELSE items

\* The loop over target_items: a URL in seen_urls is skipped, the others
\* are appended with their rank text.
RECURSIVE TakeUnseen(_, _)
TakeUnseen(items, seen) ==
  IF items = <<>> THEN <<>>
  ELSE LET h == Head(items) IN
    IF h.url \in seen THEN TakeUnseen(Tail(items), seen)
    ELSE << [rank |-> RankKey(h.rank_text), title |-> h.title,
             agent_url |-> h.url, agent_name |-> NoneStr,
             description |-> NoneStr, section |-> "Top Picks"] >>
         \o TakeUnseen(Tail(items), seen \cup {h.url})

\* _extract_top_picks on a page whose cards all show at once (the second
\* pass finds no card of higher rank and stops).
extract_top_picks(cards) ==
  TakeUnseen(FirstPage(SortByRank(ItemsWithRank(cards))), {})

\* _extract_trending_ai_pics: every card with a URL, in page order.
extract_trending_ai_pics(cards) ==
  LET HasUrl(c) == urljoin(c.href) # NoUrl
      hits == SelectSeq(cards, HasUrl)
  IN [i \in 1..Len(hits) |->
        [rank |-> NoRankKey, title |-> hits[i].title,
         agent_url |-> urljoin(hits[i].href), agent_name |-> NoneStr,
         description |-> NoneStr, section |-> "Trending AI Pics"]]

\* ---- crawl(): the field mapping ------------------------------------------
\* rank_value: the index, unless the rank entry is truthy and has a number.
RankValuePositional(agent, i) == i

RankValue(agent, i) ==
  IF agent.rank.key /\ agent.rank.text # <<>>
       /\ re_search_digits(agent.rank.text) # <<>>
    THEN IntOf(re_search_digits(agent.rank.text))
    ELSE i

\* mapped_agent, the fields the store reads.
MappedAgent(agent, i) ==
  [link |-> agent.agent_url,
   name |-> IF TruthyStr(agent.agent_name) THEN agent.agent_name.val
            ELSE agent.title,
   rank |-> RankValue(agent, i)]

\* The test of line 1113 without its name half.
ValidLinkOnly(m) == m.link # NoUrl

\* if mapped_agent['link'] and mapped_agent['name']
Valid(m) == m.link # NoUrl /\ m.name # ""

\* The mapping loop from index i on (enumerate(all_agents, start=1)).
RECURSIVE MapFrom(_, _)
MapFrom(agents_in, i) ==
  IF i > Len(agents_in) THEN <<>>
  ELSE LET m == MappedAgent(agents_in[i], i) IN
    (IF Valid(m) THEN <<m>> ELSE <<>>) \o MapFrom(agents_in, i + 1)

\* ---- crawl(): the browser and the retry loop -----------------------------
max_retries == 3

\* attempt < max_retries - 1 with the bound off by one.
RetryAlways(a) == a < max_retries

\* if attempt < max_retries - 1: sleep and retry, else re-raise.
RetryAgain(a) == a < max_retries - 1

\* _close_browser that drops the handle without closing the browser.
ClosedLiveLeaks(b, lv) == lv

\* _close_browser: the browser behind handle b is closed, the driver is
\* stopped; the browsers still running afterwards.
ClosedLive(b, lv) == lv \ {b}

\* How far _init_browser gets.
InitOutcomes == {"start_fails", "launch_fails", "new_context_fails", "ok"}

\* crawl_agents(): crawl() is entered on a new MuleRunCrawler.
CrawlEnter ==
  /\ cpc = "new"
  /\ cpc' = "init"
  /\ UNCHANGED <<attempt, playwright, browser, page, launched, live,
                 navigated, sleeps, all_agents, mapped_agents>>
  /\ UNCHANGED <<dbVars, sysVars, runVars, txVars, loopVars, managerVars, cut, scrollVars, pickVars,
                 enrichVars>>

\* self._init_browser(): _close_browser(), then the driver, the browser and
\* the page; any of the three may raise.
InitBrowser ==
  /\ cpc = "init"
  /\ \E o \in InitOutcomes :
       /\ playwright' = (o # "start_fails")
       /\ IF o \in {"new_context_fails", "ok"}
            THEN /\ launched' = launched + 1
                 /\ browser' = launched + 1
                 /\ live' = ClosedLive(browser, live) \cup {launched + 1}
            ELSE /\ launched' = launched
                 /\ browser' = 0
                 /\ live' = ClosedLive(browser, live)
       /\ page' = (o = "ok")
       /\ cpc' = IF o = "ok" THEN "goto" ELSE "failed"
  /\ UNCHANGED <<attempt, navigated, sleeps, all_agents, mapped_agents>>
  /\ UNCHANGED <<dbVars, sysVars, runVars, txVars, loopVars, managerVars, cut, scrollVars, pickVars,
                 enrichVars>>

\* self.page.goto(base_url) succeeds: break.
PageGoto ==
  /\ cpc = "goto"
  /\ navigated' = Append(navigated, browser)
  /\ cpc' = "loaded"
  /\ UNCHANGED <<attempt, playwright, browser, page, launched, live, sleeps,
                 all_agents, mapped_agents>>
  /\ UNCHANGED <<dbVars, sysVars, runVars, txVars, loopVars, managerVars, cut, scrollVars, pickVars,
                 enrichVars>>

\* self.page.goto(base_url) raises (timeout, network error).
PageGotoFails ==
  /\ cpc = "goto"
  /\ navigated' = Append(navigated, browser)
  /\ cpc' = "failed"
  /\ UNCHANGED <<attempt, playwright, browser, page, launched, live, sleeps,
                 all_agents, mapped_agents>>
  /\ UNCHANGED <<dbVars, sysVars, runVars, txVars, loopVars, managerVars, cut, scrollVars, pickVars,
                 enrichVars>>

\* except Exception: _close_browser(); retry after a sleep, or re-raise.
AttemptFailed ==
  /\ cpc = "failed"
  /\ live' = ClosedLive(browser, live)
  /\ browser' = 0
  /\ page' = FALSE
  /\ playwright' = FALSE
  /\ cpc' = IF RetryAgain(attempt) THEN "sleep" ELSE "nav_raised"
  /\ UNCHANGED <<attempt, launched, navigated, sleeps, all_agents,
                 mapped_agents>>
  /\ UNCHANGED <<dbVars, sysVars, runVars, txVars, loopVars, managerVars, cut, scrollVars, pickVars,
                 enrichVars>>

\* time.sleep(retry_delay), then the loop's next attempt.
RetrySleep ==
  /\ cpc = "sleep"
  /\ sleeps' = sleeps + 1
  /\ attempt' = attempt + 1
  /\ cpc' = "init"
  /\ UNCHANGED <<playwright, browser, page, launched, live, navigated,
                 all_agents, mapped_agents>>
  /\ UNCHANGED <<dbVars, sysVars, runVars, txVars, loopVars, managerVars, cut, scrollVars, pickVars,
                 enrichVars>>

\* What an extractor returns of its full result: all of it, or the records
\* it had appended when an error ended its work ('except Exception: return
\* top_picks' / 'return trending_items').
Returned(full) == {SubSeq(full, 1, n) : n \in 0..Len(full)}

\* all_agents = top_picks + trending_items
ExtractLists ==
  /\ cpc = "loaded"
  /\ \E top \in TopCardLists, trend \in TrendCardLists :
       \E tp \in Returned(extract_top_picks(top)),
          tr \in Returned(extract_trending_ai_pics(trend)) :
         /\ all_agents' = tp \o tr
         /\ cut' = (Len(tp) < Len(extract_top_picks(top))
                      \/ Len(tr) < Len(extract_trending_ai_pics(trend)))
  /\ cpc' = "details"
  /\ UNCHANGED <<attempt, playwright, browser, page, launched, live,
                 navigated, sleeps, mapped_agents>>
  /\ UNCHANGED <<dbVars, sysVars, runVars, txVars, loopVars, managerVars, scrollVars, pickVars,
                 enrichVars>>

\* agent.update(detail_info) for every agent.
FetchDetails ==
  /\ cpc = "details"
  /\ \E names \in [1..Len(all_agents) -> DetailNames] :
       all_agents' = [i \in 1..Len(all_agents) |->
                        [all_agents[i] EXCEPT !.agent_name = names[i]]]
  /\ cpc' = "map"
  /\ UNCHANGED <<attempt, playwright, browser, page, launched, live,
                 navigated, sleeps, mapped_agents>>
  /\ UNCHANGED <<dbVars, sysVars, runVars, txVars, loopVars, managerVars, cut, scrollVars, pickVars,
                 enrichVars>>

\* The mapping loop; return mapped_agents; finally: _close_browser().
MapAndReturn ==
  /\ cpc = "map"
  /\ mapped_agents' = MapFrom(all_agents, 1)
  /\ live' = ClosedLive(browser, live)
  /\ browser' = 0
  /\ page' = FALSE
  /\ playwright' = FALSE
  /\ cpc' = "returned"
  /\ UNCHANGED <<attempt, launched, navigated, sleeps, all_agents>>
  /\ UNCHANGED <<dbVars, sysVars, runVars, txVars, loopVars, managerVars, cut, scrollVars, pickVars,
                 enrichVars>>

\* The scrolling, an extraction or a detail page raises out of the second
\* try block: finally: _close_browser(), and the error propagates.
ExtractionRaises ==
  /\ cpc \in {"loaded", "details"}
  /\ live' = ClosedLive(browser, live)
  /\ browser' = 0
  /\ page' = FALSE
  /\ playwright' = FALSE
  /\ cpc' = "raised"
  /\ UNCHANGED <<attempt, launched, navigated, sleeps, all_agents,
                 mapped_agents>>
  /\ UNCHANGED <<dbVars, sysVars, runVars, txVars, loopVars, managerVars, cut, scrollVars, pickVars,
                 enrichVars>>

\* KeyboardInterrupt during _init_browser, page.goto or the wait after the
\* load: 'except Exception' does not catch it and the retry loop is in no
\* try/finally, so crawl() exits with the handles as they are.
NavInterrupted ==
  /\ cpc \in {"init", "goto"}
  /\ ki' = TRUE
  /\ cpc' = "interrupted"
  /\ UNCHANGED <<attempt, playwright, browser, page, launched, live,
                 navigated, sleeps, all_agents, mapped_agents>>
  /\ UNCHANGED <<dbVars, sysVars, runVars, txVars, loopVars, managerVars, cut, scrollVars, pickVars,
                 didx, detail_pages, detail_info, detail_errors>>

\* KeyboardInterrupt reaching the second try block: 'except
\* KeyboardInterrupt: raise', finally: _close_browser().
Interrupted ==
  /\ cpc \in {"loaded", "details", "map"}
  /\ ki' = TRUE
  /\ live' = ClosedLive(browser, live)
  /\ browser' = 0
  /\ page' = FALSE
  /\ playwright' = FALSE
  /\ cpc' = "interrupted"
  /\ UNCHANGED <<attempt, launched, navigated, sleeps, all_agents,
                 mapped_agents>>
  /\ UNCHANGED <<dbVars, sysVars, runVars, txVars, loopVars, managerVars, cut, scrollVars, pickVars,
                 didx, detail_pages, detail_info, detail_errors>>

NextCrawl ==
  \/ CrawlEnter
  \/ InitBrowser
  \/ PageGoto
  \/ PageGotoFails
  \/ AttemptFailed
  \/ RetrySleep
  \/ ExtractLists
  \/ FetchDetails
  \/ MapAndReturn
  \/ ExtractionRaises
  \/ NavInterrupted
  \/ Interrupted

\* One crawl() call on a page whose cards are drawn from the bounded sets.
SpecCrawl == Init /\ [][NextCrawl]_vars

\* ---- crawl(): the detail pages, one step at a time ----------------------
\* detail_info as _extract_detail_page_info creates it.
DetailDefaults == [agent_name |-> NoneStr, description |-> NoneStr]

\* content of meta og:description or the first long paragraph: none found,
\* or a text.
DetailDescriptions == {NoneStr, Str("About")}

\* agent.update(detail_info) with the title cleared as well.
AgentUpdateClearsTitle(agent, info) ==
  [agent EXCEPT !.agent_name = info.agent_name,
                !.description = info.description, !.title = ""]

\* agent.update(detail_info)
AgentUpdate(agent, info) ==
  [agent EXCEPT !.agent_name = info.agent_name,
                !.description = info.description]

\* No close at all.
ClosedPagesLeaks(opened, n) == n

\* finally: if detail_page: detail_page.close()
ClosedPages(opened, n) == IF opened THEN n - 1 ELSE n

DetailPcs == {"d_goto", "d_wait", "d_name", "d_desc", "d_rest"}

\* The loop's next item; detail_page = self.browser.new_page().  Every
\* item of all_agents has a URL, so 'if agent_url' is true.
DetailOpen ==
  /\ cpc = "details"
  /\ didx < Len(all_agents)
  /\ detail_info' = DetailDefaults
  /\ detail_pages' = detail_pages + 1
  /\ cpc' = "d_goto"
  /\ UNCHANGED <<attempt, playwright, browser, page, launched, live,
                 navigated, sleeps, all_agents, mapped_agents>>
  /\ UNCHANGED <<dbVars, sysVars, runVars, txVars, loopVars, managerVars, cut, scrollVars, pickVars,
                 didx, ki, detail_errors>>

\* new_page() raises: 'except Exception' logs, detail_page is None, the
\* defaults are returned and merged, the loop goes on.
DetailOpenFails ==
  /\ cpc = "details"
  /\ didx < Len(all_agents)
  /\ detail_info' = DetailDefaults
  /\ detail_errors' = detail_errors \cup {didx + 1}
  /\ detail_pages' = ClosedPages(FALSE, detail_pages)
  /\ all_agents' = [all_agents EXCEPT
                      ![didx + 1] = AgentUpdate(@, DetailDefaults)]
  /\ didx' = didx + 1
  /\ UNCHANGED <<attempt, playwright, browser, page, launched, live,
                 navigated, sleeps, mapped_agents>>
  /\ UNCHANGED <<dbVars, sysVars, runVars, txVars, loopVars, managerVars, cut, scrollVars, pickVars,
                 cpc, ki>>

\* detail_page.goto(agent_url) and the settle delay.
DetailGoto ==
  /\ cpc = "d_goto"
  /\ cpc' = "d_wait"
  /\ UNCHANGED <<attempt, playwright, browser, page, launched, live,
                 navigated, sleeps, all_agents, mapped_agents>>
  /\ UNCHANGED <<dbVars, sysVars, runVars, txVars, loopVars, managerVars, cut, scrollVars, pickVars,
                 enrichVars>>

\* try: detail_page.wait_for_load_state('networkidle') except: pass --
\* it returns, or it raises an error that the bare except drops.
DetailWait ==
  /\ cpc = "d_wait"
  /\ cpc' = "d_name"
  /\ UNCHANGED <<attempt, playwright, browser, page, launched, live,
                 navigated, sleeps, all_agents, mapped_agents>>
  /\ UNCHANGED <<dbVars, sysVars, runVars, txVars, loopVars, managerVars, cut, scrollVars, pickVars,
                 enrichVars>>

\* KeyboardInterrupt during that wait: the bare except drops it too, and
\* the extraction goes on.
DetailWaitInterrupted ==
  /\ cpc = "d_wait"
  /\ ki' = TRUE
  /\ cpc' = "d_name"
  /\ UNCHANGED <<attempt, playwright, browser, page, launched, live,
                 navigated, sleeps, all_agents, mapped_agents>>
  /\ UNCHANGED <<dbVars, sysVars, runVars, txVars, loopVars, managerVars, cut, scrollVars, pickVars,
                 didx, detail_pages, detail_info, detail_errors>>

\* detail_info['agent_name'] from the first h1, if there is one.
DetailName ==
  /\ cpc = "d_name"
  /\ \E n \in DetailNames :
       detail_info' = [detail_info EXCEPT !.agent_name = n]
  /\ cpc' = "d_desc"
  /\ UNCHANGED <<attempt, playwright, browser, page, launched, live,
                 navigated, sleeps, all_agents, mapped_agents>>
  /\ UNCHANGED <<dbVars, sysVars, runVars, txVars, loopVars, managerVars, cut, scrollVars, pickVars,
                 didx, detail_pages, ki, detail_errors>>

\* detail_info['description'] from the meta tag or a paragraph.
DetailDescription ==
  /\ cpc = "d_desc"
  /\ \E d \in DetailDescriptions :
       detail_info' = [detail_info EXCEPT !.description = d]
  /\ cpc' = "d_rest"
  /\ UNCHANGED <<attempt, playwright, browser, page, launched, live,
                 navigated, sleeps, all_agents, mapped_agents>>
  /\ UNCHANGED <<dbVars, sysVars, runVars, txVars, loopVars, managerVars, cut, scrollVars, pickVars,
                 didx, detail_pages, ki, detail_errors>>

\* The remaining fields; finally: the page is closed; return detail_info;
\* agent.update(detail_info); the loop goes on.
DetailReturn ==
  /\ cpc = "d_rest"
  /\ detail_pages' = ClosedPages(TRUE, detail_pages)
  /\ all_agents' = [all_agents EXCEPT
                      ![didx + 1] = AgentUpdate(@, detail_info)]
  /\ didx' = didx + 1
  /\ detail_info' = DetailDefaults
  /\ cpc' = "details"
  /\ UNCHANGED <<attempt, playwright, browser, page, launched, live,
                 navigated, sleeps, mapped_agents>>
  /\ UNCHANGED <<dbVars, sysVars, runVars, txVars, loopVars, managerVars, cut, scrollVars, pickVars,
                 ki, detail_errors>>

\* goto or the extraction of a field raises: 'except Exception' logs,
\* finally closes the page, detail_info is returned as far as it was
\* filled and merged, the loop goes on.
DetailFails ==
  /\ cpc \in {"d_goto", "d_name", "d_desc", "d_rest"}
  /\ detail_errors' = detail_errors \cup {didx + 1}
  /\ detail_pages' = ClosedPages(TRUE, detail_pages)
  /\ all_agents' = [all_agents EXCEPT
                      ![didx + 1] = AgentUpdate(@, detail_info)]
  /\ didx' = didx + 1
  /\ detail_info' = DetailDefaults
  /\ cpc' = "details"
  /\ UNCHANGED <<attempt, playwright, browser, page, launched, live,
                 navigated, sleeps, mapped_agents>>
  /\ UNCHANGED <<dbVars, sysVars, runVars, txVars, loopVars, managerVars, cut, scrollVars, pickVars,
                 ki>>

\* KeyboardInterrupt in goto, the settle delay or the extraction of a
\* field: not an Exception; finally closes the detail page, crawl()
\* re-raises twice and its finally closes the browser.
DetailInterrupted ==
  /\ cpc \in {"d_goto", "d_name", "d_desc", "d_rest"}
  /\ ki' = TRUE
  /\ detail_pages' = ClosedPages(TRUE, detail_pages)
  /\ live' = ClosedLive(browser, live)
  /\ browser' = 0
  /\ page' = FALSE
  /\ playwright' = FALSE
  /\ cpc' = "interrupted"
  /\ UNCHANGED <<attempt, launched, navigated, sleeps, all_agents,
                 mapped_agents>>
  /\ detail_info' = DetailDefaults
  /\ UNCHANGED <<dbVars, sysVars, runVars, txVars, loopVars, managerVars, cut, scrollVars, pickVars,
                 didx, detail_errors>>

\* The loop over all_agents is exhausted.
EnrichDone ==
  /\ cpc = "details"
  /\ didx = Len(all_agents)
  /\ cpc' = "map"
  /\ UNCHANGED <<attempt, playwright, browser, page, launched, live,
                 navigated, sleeps, all_agents, mapped_agents>>
  /\ UNCHANGED <<dbVars, sysVars, runVars, txVars, loopVars, managerVars, cut, scrollVars, pickVars,
                 enrichVars>>

\* Cards per section on the pages whose detail loop is followed.
MaxCards == 1

\* all_agents for those pages.
EnrichInputs ==
  {extract_top_picks(top) \o extract_trending_ai_pics(trend) :
     top \in UNION {[1..n -> TopCards] : n \in 0..MaxCards},
     trend \in UNION {[1..n -> TrendCards] : n \in 0..MaxCards}}

\* crawl() at 'for idx, agent in enumerate(all_agents, start=1)': the first
\* navigation succeeded and the two lists are merged.
InitEnrich ==
  /\ ServiceInit
  /\ cpc = "details"
  /\ attempt = 0
  /\ playwright = TRUE
  /\ browser = 1
  /\ page = TRUE
  /\ launched = 1
  /\ live = {1}
  /\ navigated = <<1>>
  /\ sleeps = 0
  /\ all_agents \in EnrichInputs
  /\ mapped_agents = <<>>
  /\ cut = FALSE
  /\ ListInit
  /\ DetailInit
  /\ LoopInit
  /\ ManagerInit

NextEnrich ==
  \/ DetailOpen
  \/ DetailOpenFails
  \/ DetailGoto
  \/ DetailWait
  \/ DetailWaitInterrupted
  \/ DetailName
  \/ DetailDescription
  \/ DetailReturn
  \/ DetailFails
  \/ DetailInterrupted
  \/ EnrichDone
  \/ MapAndReturn
  \/ Interrupted

\* crawl() from the detail loop on, the detail pages visited step by step.
SpecEnrich == InitEnrich /\ [][NextEnrich]_vars

\* ---- crawl(): the scrolling and the Top Picks loop, step by step --------
scroll_count == 3
max_clicks == 50

\* Scrolls that may add elements to the page.
Growth == {0, 1}

\* One pass of 'for i in range(times)': scroll to the bottom, sleep, wait
\* for the network.  The page may have grown or not; the loop does not look.
ScrollPage ==
  /\ cpc = "loaded"
  /\ scrolls < scroll_count
  /\ scrolls' = scrolls + 1
  /\ \E g \in Growth :
       /\ elements' = elements + g
       /\ stale' = IF g > 0 THEN 0 ELSE stale + 1
  /\ UNCHANGED <<attempt, playwright, browser, page, launched, live,
                 navigated, sleeps, all_agents, mapped_agents>>
  /\ UNCHANGED <<dbVars, sysVars, runVars, txVars, loopVars, managerVars, cut, pickVars, enrichVars,
                 cpc>>

\* range(times) is exhausted; _extract_top_picks starts with an empty list
\* and an empty seen_urls.
ScrollDone ==
  /\ cpc = "loaded"
  /\ scrolls = scroll_count
  /\ cpc' = "picks"
  /\ UNCHANGED <<attempt, playwright, browser, page, launched, live,
                 navigated, sleeps, all_agents, mapped_agents>>
  /\ UNCHANGED <<dbVars, sysVars, runVars, txVars, loopVars, managerVars, cut, scrollVars, pickVars,
                 enrichVars>>

\* A Top Picks card of the carousel.
Card(path, digit) ==
  [href |-> Rel(path), rank_text |-> <<digit>>, title |-> "Pick"]

\* What query_selector_all('a[data-slot="explore-recommend-item"]') may
\* return: the first six cards, all eight with the carousel wrapped around,
\* the wrapped window after one click, a later window that overlaps and
\* shows /p1 again under rank 9 beside a card without href, and nothing.
Windows ==
  { << Card("/p1", "1"), Card("/p2", "2"), Card("/p3", "3"),
       Card("/p4", "4"), Card("/p5", "5"), Card("/p6", "6") >>,
    << Card("/p7", "7"), Card("/p8", "8"), Card("/p1", "1"),
       Card("/p2", "2"), Card("/p3", "3"), Card("/p4", "4"),
       Card("/p5", "5"), Card("/p6", "6") >>,
    << Card("/p7", "7"), Card("/p8", "8"), Card("/p1", "1"),
       Card("/p2", "2"), Card("/p3", "3"), Card("/p4", "4") >>,
    << Card("/p5", "5"), Card("/p6", "6"), Card("/p7", "7"),
       Card("/p8", "8"),
       [href |-> Abs("/p1"), rank_text |-> <<"9">>, title |-> "Pick"],
       [href |-> NoUrl, rank_text |-> <<"3">>, title |-> "Loose"] >>,
    << >> }

\* The record appended to top_picks for an item.
PickRecord(h) ==
  [rank |-> RankKey(h.rank_text), title |-> h.title, agent_url |-> h.url,
   agent_name |-> NoneStr, description |-> NoneStr, section |-> "Top Picks"]

\* max_extracted_rank: the largest number found in the rank texts of
\* top_picks, 0 when there is none.
MaxExtractedRank(picks) ==
  LET nums == {0} \cup
        {IntOf(re_search_digits(picks[i].rank.text)) :
           i \in {j \in DOMAIN picks :
                    re_search_digits(picks[j].rank.text) # <<>>}}
  IN CHOOSE m \in nums : \A n \in nums : n <= m

\* new_items without the test on the rank.
NewItemsAnyRank(items, picks, seen) ==
  LET IsNew(x) == x.url \notin seen
  IN SelectSeq(items, IsNew)

\* new_items: rank above max_extracted_rank and URL not in seen_urls.
NewItems(items, picks, seen) ==
  LET IsNew(x) == x.rank > MaxExtractedRank(picks) /\ x.url \notin seen
  IN SelectSeq(items, IsNew)

\* target_items without the two sorts.
TargetItemsUnsorted(items, picks, seen) ==
  IF Len(picks) = 0 THEN FirstPage(items)
  ELSE FirstPage(NewItems(items, picks, seen))

\* target_items of a pass.
TargetItems(items, picks, seen) ==
  IF Len(picks) = 0 THEN FirstPage(SortByRank(items))
  ELSE FirstPage(SortByRank(NewItems(items, picks, seen)))

\* Items whose field extraction may raise in one pass.
MaxItemErrors == 1

\* The loop over target_items from index i on: a URL in seen_urls is
\* skipped; otherwise the URL is added to seen_urls, and the record is
\* appended unless reading a field raised (the items in bad).
RECURSIVE CaptureFrom(_, _, _, _, _)
CaptureFrom(items, i, picks, seen, bad) ==
  IF i > Len(items) THEN [picks |-> picks, seen |-> seen]
  ELSE LET h == items[i] IN
    IF h.url \in seen THEN CaptureFrom(items, i + 1, picks, seen, bad)
    ELSE IF i \in bad
      THEN CaptureFrom(items, i + 1, picks, seen \cup {h.url}, bad)
      ELSE CaptureFrom(items, i + 1, Append(picks, PickRecord(h)),
                       seen \cup {h.url}, bad)

\* The head of 'while click_count < max_clicks': the visible cards are read
\* and target_items is chosen; with no card at all the loop ends.
PickLook ==
  /\ cpc = "picks"
  /\ click_count < max_clicks
  /\ \E w \in Windows :
       /\ visible' = w
       /\ IF Len(w) = 0
            THEN /\ target_items' = <<>>
                 /\ cpc' = "picked"
            ELSE /\ target_items' =
                      TargetItems(ItemsWithRank(w), top_picks, seen_urls)
                 /\ cpc' = "pick_items"
  /\ UNCHANGED <<attempt, playwright, browser, page, launched, live,
                 navigated, sleeps, all_agents, mapped_agents>>
  /\ UNCHANGED <<dbVars, sysVars, runVars, txVars, loopVars, managerVars, cut, scrollVars,
                 enrichVars, top_picks, seen_urls, click_count>>

\* The loop over target_items; batch_count == 0 ends the while loop.
PickExtract ==
  /\ cpc = "pick_items"
  /\ \E bad \in SUBSET (1..Len(target_items)) :
       /\ Cardinality(bad) <= MaxItemErrors
       /\ LET res == CaptureFrom(target_items, 1, top_picks, seen_urls, bad)
          IN /\ top_picks' = res.picks
             /\ seen_urls' = res.seen
             /\ cpc' = IF Len(res.picks) = Len(top_picks)
                         THEN "picked" ELSE "pick_click"
  /\ UNCHANGED <<attempt, playwright, browser, page, launched, live,
                 navigated, sleeps, all_agents, mapped_agents>>
  /\ UNCHANGED <<dbVars, sysVars, runVars, txVars, loopVars, managerVars, cut, scrollVars,
                 enrichVars, click_count, visible, target_items>>

\* The right-hand button is found and clicked; after the polling, with or
\* without new cards, click_count += 1 and the loop goes on.
PickClick ==
  /\ cpc = "pick_click"
  /\ click_count' = click_count + 1
  /\ cpc' = "picks"
  /\ UNCHANGED <<attempt, playwright, browser, page, launched, live,
                 navigated, sleeps, all_agents, mapped_agents>>
  /\ UNCHANGED <<dbVars, sysVars, runVars, txVars, loopVars, managerVars, cut, scrollVars,
                 enrichVars, top_picks, seen_urls, visible, target_items>>

\* No button, a disabled or invisible one, or the click raises: break.
PickNoButton ==
  /\ cpc = "pick_click"
  /\ cpc' = "picked"
  /\ UNCHANGED <<attempt, playwright, browser, page, launched, live,
                 navigated, sleeps, all_agents, mapped_agents>>
  /\ UNCHANGED <<dbVars, sysVars, runVars, txVars, loopVars, managerVars, cut, scrollVars,
                 enrichVars, pickVars>>

\* crawl() after the first navigation succeeded, before _scroll_page.
InitPicks ==
  /\ ServiceInit
  /\ cpc = "loaded"
  /\ attempt = 0
  /\ playwright = TRUE
  /\ browser = 1
  /\ page = TRUE
  /\ launched = 1
  /\ live = {1}
  /\ navigated = <<1>>
  /\ sleeps = 0
  /\ all_agents = <<>>
  /\ mapped_agents = <<>>
  /\ cut = FALSE
  /\ ListInit
  /\ DetailInit
  /\ LoopInit
  /\ ManagerInit

NextPicks ==
  \/ ScrollPage
  \/ ScrollDone
  \/ PickLook
  \/ PickExtract
  \/ PickClick
  \/ PickNoButton

\* _scroll_page and _extract_top_picks on a carousel.
SpecPicks == InitPicks /\ [][NextPicks]_vars

\* ---- _extract_top_picks on an endless carousel, then the Trending read ---
\* str(n) for 0 <= n < 100, as a string and as the characters of a rank text.
DigitChars == <<"0", "1", "2", "3", "4", "5", "6", "7", "8", "9">>
PyStr(n) ==
  IF n < 10 THEN DigitChars[n + 1]
  ELSE DigitChars[(n \div 10) + 1] \o DigitChars[(n % 10) + 1]
RankText(n) ==
  IF n < 10 THEN <<DigitChars[n + 1]>>
  ELSE <<DigitChars[(n \div 10) + 1], DigitChars[(n % 10) + 1]>>

\* The carousel's card of rank n.
QCard(n) ==
  [href |-> Rel("/q" \o PyStr(n)), rank_text |-> RankText(n), title |-> "Pick"]

\* What the carousel may show when the largest captured rank is m: the
\* next card with the first card wrapped around behind it, or (nothing
\* moved) the card captured last.
CarouselWindows(m) ==
  {<<QCard(m + 1), QCard(1)>>} \cup (IF m > 0 THEN {<<QCard(m)>>} ELSE {})

\* The while condition with no limit.
LoopGoesOnAlways(n) == TRUE

\* while click_count < max_clicks
LoopGoesOn(n) == n < max_clicks

\* The while condition fails: the loop ends and top_picks is returned.
CarouselExhausted ==
  /\ cpc = "picks"
  /\ ~LoopGoesOn(click_count)
  /\ cpc' = "picked"
  /\ UNCHANGED <<attempt, playwright, browser, page, launched, live,
                 navigated, sleeps, all_agents, mapped_agents>>
  /\ UNCHANGED <<dbVars, sysVars, runVars, txVars, loopVars, managerVars, cut,
                 scrollVars, pickVars, enrichVars>>

\* The first read of the cards in a pass: with no card the pass sleeps and
\* reads again, otherwise target_items is chosen.
CarouselLook ==
  /\ cpc = "picks"
  /\ LoopGoesOn(click_count)
  /\ reads' = 1
  /\ \E w \in CarouselWindows(MaxExtractedRank(top_picks)) \cup {<<>>} :
       /\ visible' = w
       /\ IF Len(w) = 0
            THEN /\ cpc' = "pick_retry"
                 /\ UNCHANGED target_items
            ELSE /\ target_items' =
                      TargetItems(ItemsWithRank(w), top_picks, seen_urls)
                 /\ cpc' = "pick_items"
  /\ UNCHANGED <<attempt, playwright, browser, page, launched, live,
                 navigated, sleeps, all_agents, mapped_agents>>
  /\ UNCHANGED <<dbVars, sysVars, runVars, txVars, managerVars, cut,
                 scrollVars, enrichVars, top_picks, seen_urls, click_count,
                 empty_stop, waited, stable_count, new_items_found,
                 prev_poll, last_poll, trending_items>>

\* time.sleep(2) and the second read: still no card ends the loop.
CarouselRetry ==
  /\ cpc = "pick_retry"
  /\ reads' = reads + 1
  /\ \E w \in CarouselWindows(MaxExtractedRank(top_picks)) \cup {<<>>} :
       /\ visible' = w
       /\ IF Len(w) = 0
            THEN /\ cpc' = "picked"
                 /\ empty_stop' = "top"
                 /\ UNCHANGED target_items
            ELSE /\ target_items' =
                      TargetItems(ItemsWithRank(w), top_picks, seen_urls)
                 /\ cpc' = "pick_items"
                 /\ UNCHANGED empty_stop
  /\ UNCHANGED <<attempt, playwright, browser, page, launched, live,
                 navigated, sleeps, all_agents, mapped_agents>>
  /\ UNCHANGED <<dbVars, sysVars, runVars, txVars, managerVars, cut,
                 scrollVars, enrichVars, top_picks, seen_urls, click_count,
                 waited, stable_count, new_items_found, prev_poll, last_poll,
                 trending_items>>

\* next_button.click(): the poll loop starts with waited = 0 and
\* stable_count = 0.
ClickButton ==
  /\ cpc = "pick_click"
  /\ waited' = 0
  /\ stable_count' = 0
  /\ new_items_found' = FALSE
  /\ prev_poll' = "none"
  /\ last_poll' = "none"
  /\ cpc' = "poll"
  /\ UNCHANGED <<attempt, playwright, browser, page, launched, live,
                 navigated, sleeps, all_agents, mapped_agents>>
  /\ UNCHANGED <<dbVars, sysVars, runVars, txVars, managerVars, cut,
                 scrollVars, pickVars, enrichVars, reads, empty_stop,
                 trending_items>>

\* max_wait = 8 seconds in steps of wait_interval = 0.2 seconds: adding 0.2
\* forty times gives the first float that is not below 8.
max_wait == 8
polls_per_second == 5
PollLimit == max_wait * polls_per_second

\* The poll loop's condition with no limit.
PollGoesOnAlways(w) == TRUE

\* while waited < max_wait
PollGoesOn(w) == w < PollLimit

\* What one page.evaluate of the poll loop finds: new URLs or ranks, the
\* set as before the click, no item, no container (null), or an error.
PollReads == {"changed", "same", "zero", "null", "raises"}

\* stable_count after a poll: a changed read counts one up; an unchanged
\* or empty read and an error reset it; a null result leaves it.
StableAfter(n, o) ==
  CASE o = "changed" -> n + 1
    [] o = "null" -> n
    [] OTHER -> 0

\* One pass of 'while waited < max_wait'.
Poll ==
  /\ cpc = "poll"
  /\ ~new_items_found
  /\ PollGoesOn(waited)
  /\ \E o \in PollReads :
       /\ stable_count' = StableAfter(stable_count, o)
       /\ new_items_found' = (o = "changed" /\ StableAfter(stable_count, o) >= 2)
       /\ waited' = IF o = "changed" /\ StableAfter(stable_count, o) >= 2
                      THEN waited ELSE waited + 1
       /\ prev_poll' = last_poll
       /\ last_poll' = o
  /\ UNCHANGED <<attempt, playwright, browser, page, launched, live,
                 navigated, sleeps, all_agents, mapped_agents>>
  /\ UNCHANGED <<dbVars, sysVars, runVars, txVars, managerVars, cut,
                 scrollVars, pickVars, enrichVars, cpc, reads, empty_stop,
                 trending_items>>

\* The poll loop is left by its break or by its condition; the network
\* wait; click_count += 1; the while loop goes on.
PollExit ==
  /\ cpc = "poll"
  /\ new_items_found \/ ~PollGoesOn(waited)
  /\ click_count' = click_count + 1
  /\ waited' = 0
  /\ stable_count' = 0
  /\ new_items_found' = FALSE
  /\ prev_poll' = "none"
  /\ last_poll' = "none"
  /\ cpc' = "picks"
  /\ UNCHANGED <<attempt, playwright, browser, page, launched, live,
                 navigated, sleeps, all_agents, mapped_agents>>
  /\ UNCHANGED <<dbVars, sysVars, runVars, txVars, managerVars, cut,
                 scrollVars, enrichVars, top_picks, seen_urls, visible,
                 target_items, reads, empty_stop, trending_items>>

\* What query_selector_all of the Trending cards may return.
TrendReads == {<<>>} \cup {<<c>> : c \in TrendCards}

\* _extract_trending_ai_pics: one read of the cards, and the loop over
\* them; with no card the empty list is returned at once.
TrendRead ==
  /\ cpc = "picked"
  /\ reads' = 1
  /\ \E t \in TrendReads :
       /\ trending_items' = extract_trending_ai_pics(t)
       /\ empty_stop' = IF Len(t) = 0 THEN "trend" ELSE "none"
  /\ cpc' = "listed"
  /\ UNCHANGED <<attempt, playwright, browser, page, launched, live,
                 navigated, sleeps, all_agents, mapped_agents>>
  /\ UNCHANGED <<dbVars, sysVars, runVars, txVars, managerVars, cut,
                 scrollVars, pickVars, enrichVars, waited, stable_count,
                 new_items_found, prev_poll, last_poll>>

\* crawl() after _scroll_page on a page that did not grow, at the call of
\* _extract_top_picks.
InitCarousel ==
  /\ ServiceInit
  /\ cpc = "picks"
  /\ attempt = 0
  /\ playwright = TRUE
  /\ browser = 1
  /\ page = TRUE
  /\ launched = 1
  /\ live = {1}
  /\ navigated = <<1>>
  /\ sleeps = 0
  /\ all_agents = <<>>
  /\ mapped_agents = <<>>
  /\ cut = FALSE
  /\ scrolls = scroll_count
  /\ elements = 0
  /\ stale = scroll_count
  /\ top_picks = <<>>
  /\ seen_urls = {}
  /\ click_count = 0
  /\ visible = <<>>
  /\ target_items = <<>>
  /\ DetailInit
  /\ LoopInit
  /\ ManagerInit

NextCarousel ==
  \/ CarouselExhausted
  \/ CarouselLook
  \/ CarouselRetry
  \/ PickExtract
  \/ PickNoButton
  \/ ClickButton
  \/ Poll
  \/ PollExit
  \/ TrendRead

\* The two list extractors, the carousel always offering a next card.
SpecCarousel == InitCarousel /\ [][NextCarousel]_vars

\* ---- the API's SchedulerManager ------------------------------------------
\* The manager's fields as one value; job is the interval in hours of the
\* crawl_job the scheduler holds, 0 when it holds none.
Manager ==
  [scheduler |-> scheduler, enabled |-> enabled,
   interval_hours |-> interval_hours, job |-> job]

\* An Optional argument: <<>> is None, <<v>> the value v.
IntervalArgs == {<<>>, <<1>>, <<12>>, <<168>>}
EnabledArgs == {<<>>, <<TRUE>>, <<FALSE>>}

\* scheduler.running
Running(m) == m.scheduler = "running"

\* SchedulerManager.start(enabled)
start(m, e) ==
  IF Running(m) THEN m
  ELSE [m EXCEPT !.enabled = e,
                 !.scheduler = "running",
                 !.job = IF e THEN m.interval_hours ELSE 0]

\* SchedulerManager.stop(); shutdown() ends the scheduler and its job
\* before it returns.
stop(m) ==
  IF Running(m)
    THEN [m EXCEPT !.scheduler = "stopped", !.job = 0, !.enabled = FALSE]
    ELSE m

\* SchedulerManager.update_config(interval_hours, enabled)
update_config(m, h, e) ==
  LET m1 == IF h # <<>> THEN [m EXCEPT !.interval_hours = h[1]] ELSE m
      m2 == IF e # <<>> THEN [m1 EXCEPT !.enabled = e[1]] ELSE m1
  IN IF Running(m2) THEN start(stop(m2), stop(m2).enabled)
     ELSE IF e = <<TRUE>> THEN start(m2, m2.enabled)
     ELSE m2

\* The manager's fields become those of m.
Becomes(m) ==
  /\ scheduler' = m.scheduler
  /\ enabled' = m.enabled
  /\ interval_hours' = m.interval_hours
  /\ job' = m.job

\* scheduler_manager.start(): the application's startup and POST
\* /scheduler/start.
Start ==
  /\ Becomes(start(Manager, TRUE))
  /\ UNCHANGED <<dbVars, sysVars, runVars, txVars, crawlVars, loopVars,
                 last_run_time>>

\* scheduler_manager.stop(): POST /scheduler/stop and the application's
\* shutdown.
Stop ==
  /\ Becomes(stop(Manager))
  /\ UNCHANGED <<dbVars, sysVars, runVars, txVars, crawlVars, loopVars,
                 last_run_time>>

\* scheduler_manager.update_config(h, e)
UpdateConfig(h, e) ==
  /\ Becomes(update_config(Manager, h, e))
  /\ UNCHANGED <<dbVars, sysVars, runVars, txVars, crawlVars, loopVars,
                 last_run_time>>

MaxFires == 4       \* runs of the scheduled job in one behaviour

\* The scheduler runs _crawl_job: whatever the crawl does, last_run_time is
\* set to the time it ended.
CrawlJob ==
  /\ scheduler = "running"
  /\ job # 0
  /\ now <= MaxFires
  /\ last_run_time' = now
  /\ now' = now + 1
  /\ UNCHANGED <<dbVars, started, queue, runVars, txVars, crawlVars, loopVars,
                 scheduler, enabled, interval_hours, job>>

NextManager ==
  \/ Start
  \/ Stop
  \/ \E h \in IntervalArgs, e \in EnabledArgs : UpdateConfig(h, e)
  \/ CrawlJob

\* The scheduler manager under any sequence of calls.
SpecManager == Init /\ [][NextManager]_vars

\* ---- claims -------------------------------------------------------------
\* Number of rank_history rows of link l in h.
HistCount(h, l) == Cardinality({i \in DOMAIN h : h[i].agent_link = l})

\* Links with an active row / with any row when run r's call began.
ActiveBefore(r) == {l \in Links : pre_agents[r][l].exists /\ pre_agents[r][l].is_active}
KnownBefore(r) == {l \in Links : pre_agents[r][l].exists}

\* The step in which run r's save_agents call commits.
Commits(r) == pc[r] = "commit" /\ pc'[r] = "saved"

\* C1: when save_agents(batch, t) commits, every link that was active before
\* the call and is not in the batch is inactive with last_updated = t, and
\* the call added no rank_history row for it.
C1_DisappearedDeactivated ==
  [][\A r \in Runs : Commits(r) =>
       \A l \in ActiveBefore(r) \ BatchLinks(batch[r]) :
         /\ agents'[l].exists
         /\ ~agents'[l].is_active
         /\ agents'[l].last_updated = crawl_time[r]
         /\ HistCount(rank_history', l) = HistCount(rank_history, l)]_vars

\* A call has committed that deactivated a link that was active before it.
C1_Witness ==
  \E r \in Runs :
    /\ pc[r] = "saved"
    /\ \E l \in ActiveBefore(r) \ BatchLinks(batch[r]) :
         ~agents[l].is_active /\ agents[l].last_updated = crawl_time[r]

\* C2: when save_agents commits, every link of its batch is active, whether
\* it had no row, an active row or an inactive row before.
C2_BatchLinksActive ==
  [][\A r \in Runs : Commits(r) =>
       \A l \in BatchLinks(batch[r]) :
         agents'[l].exists /\ agents'[l].is_active]_vars

\* A call has committed whose batch holds a link that was inactive before it.
C2_Witness ==
  \E r \in Runs :
    /\ pc[r] = "saved"
    /\ \E l \in BatchLinks(batch[r]) :
         /\ pre_agents[r][l].exists
         /\ ~pre_agents[r][l].is_active
         /\ agents[l].is_active

\* C3: after a save_agents call has committed, every link of its batch is
\* active and the call has appended exactly one rank_history row for each
\* link of the batch (the rows carrying the call's crawl_time), on a first
\* call with the batch as on a repeated one.
C3_OneSamplePerLink ==
  \A r \in Runs : pc[r] = "saved" =>
    \A l \in BatchLinks(batch[r]) :
      /\ agents[l].is_active
      /\ HistCount(rank_history, l) = HistCount(pre_history[r], l) + 1

\* C4: the value a run binds to new_agents from save_agents is the list of
\* the batch links that had no agents row before the call.
C4_AddedIsNewLinks ==
  \A r \in Runs :
    (kind[r] \in {"api", "sched"} /\ committed[r] /\ pc[r] # "saved") =>
      new_agents[r] = PyList(BatchLinks(batch[r]) \ KnownBefore(r))

\* C5: the value a run binds to removed_agents from save_agents is the list
\* of the links that were active before the call and are not in the batch.
C5_RemovedIsDisappeared ==
  \A r \in Runs :
    (kind[r] \in {"api", "sched", "once"} /\ committed[r] /\ pc[r] # "saved") =>
      removed_agents[r] = PyList(ActiveBefore(r) \ BatchLinks(batch[r]))

\* The rows of res are in ascending order of rank.
AscendingRank(res) == \A i, j \in DOMAIN res : i < j => res[i].rank <= res[j].rank

\* C6: once a save_agents call has committed, get_active_agents returns only
\* links of the most recently committed batch, in ascending order of rank,
\* and without a limit it returns every link of that batch.
C6_ActiveAreLastBatch ==
  last_batch # <<>> =>
    \A sc \in Scans, limit \in Limits :
      LET res == get_active_agents(agents, sc, limit) IN
        /\ \A i \in DOMAIN res : res[i].link \in BatchLinks(last_batch)
        /\ AscendingRank(res)
        /\ limit = 0 => {res[i].link : i \in DOMAIN res} = BatchLinks(last_batch)

\* C7: no statement of an open save_agents transaction, and no failure of
\* one, changes the committed agents and rank_history tables: a call that
\* fails at any statement leaves both exactly as they were.
C7_FailureRollsBack ==
  [][\A r \in Runs :
       (pc[r] \in TxPcs /\ pc'[r] # pc[r] /\ pc'[r] # "saved") =>
         agents' = agents /\ rank_history' = rank_history]_vars

\* A call failed at its second record, after a deactivation, an upsert and a
\* history insert of its own.
C7_Witness ==
  \E r \in Runs :
    /\ pc[r] = "except"
    /\ ~committed[r]
    /\ idx[r] = 2
    /\ existing_links[r] \ BatchLinks(batch[r]) # {}
    /\ agents = pre_agents[r]
    /\ rank_history = pre_history[r]

\* C8: at most one execution of crawl_agents is in flight at any time.
C8_AtMostOneCrawl ==
  Cardinality({r \in Runs : pc[r] = "crawling"}) <= 1

\* C9: when a run ends in the failure it reports to its trigger (fail_task,
\* or run_crawl_sync / main raising), agents and rank_history are as they
\* were before the run's save_agents call.
C9_FailedRunLeavesStore ==
  \A r \in Runs :
    (pc[r] = "except" /\ kind[r] # "daemon" /\ tx_start[r] # 0) =>
      agents = pre_agents[r] /\ rank_history = pre_history[r]

\* C10: a run of run_crawl_task or run_crawl_sync whose save_agents call has
\* committed goes on to report success; it never ends in the except handler.
C10_CommittedRunSucceeds ==
  \A r \in Runs :
    (kind[r] \in {"api", "sched"} /\ committed[r]) =>
      pc[r] \in {"saved", "success"} /\ task_status[r] # "failed"

\* The step in which run r ends (its entry point returns or raises).
Ends(r) == pc[r] # "done" /\ pc'[r] = "done"

\* C11: a run whose save_agents call committed has, when it ends, called
\* send_crawl_summary, has passed the removed list to the notifier if links
\* disappeared and the added list if links were new; and no notifier call
\* is made by a run whose save_agents call has not committed.
C11_NotifiedAfterCommit ==
  [][\A r \in Runs :
       /\ sent'[r] # {} => committed'[r]
       /\ (Ends(r) /\ committed[r]) =>
            /\ "summary" \in sent[r]
            /\ ActiveBefore(r) \ BatchLinks(batch[r]) # {} => "removed" \in sent[r]
            /\ BatchLinks(batch[r]) \ KnownBefore(r) # {} => "added" \in sent[r]]_vars

\* C12: no step removes a row from agents (the set of persisted links
\* never shrinks, whether a call commits or fails), and a commit makes
\* active every batch link whose committed row was inactive.
C12_RowsNeverRemoved ==
  [][/\ \A l \in Links : agents[l].exists => agents'[l].exists
     /\ \A r \in Runs : Commits(r) =>
          \A l \in BatchLinks(batch[r]) :
            (agents[l].exists /\ ~agents[l].is_active) => agents'[l].is_active]_vars

\* A call has committed that reactivated one link and deactivated another,
\* and both still have their rows.
C12_Witness ==
  \E r \in Runs :
    /\ pc[r] = "saved"
    /\ \E l1, l2 \in Links :
         /\ pre_agents[r][l1].exists /\ ~pre_agents[r][l1].is_active
         /\ agents[l1].exists /\ agents[l1].is_active
         /\ pre_agents[r][l2].is_active
         /\ agents[l2].exists /\ ~agents[l2].is_active

\* C13: no step changes the first_seen of an existing agents row, be it an
\* update, a deactivation or a reactivation of the row.
C13_FirstSeenImmutable ==
  [][\A l \in Links :
       agents[l].exists =>
         agents'[l].exists /\ agents'[l].first_seen = agents[l].first_seen]_vars

\* A call has committed that rewrote an existing row (new last_updated) in
\* a transaction begun later than the row's first_seen, which it kept.
C13_Witness ==
  \E r \in Runs :
    /\ pc[r] = "saved"
    /\ \E l \in BatchLinks(batch[r]) :
         /\ pre_agents[r][l].exists
         /\ agents[l].last_updated = crawl_time[r]
         /\ agents[l].last_updated # pre_agents[r][l].last_updated
         /\ agents[l].first_seen = pre_agents[r][l].first_seen
         /\ agents[l].first_seen # tx_start[r]

\* C14: after save_agents(batch, t) has committed, every batch link's row
\* has last_updated = t, and the row of a batch link that had no row before
\* the call has first_seen = t.
C14_FirstSeenIsCrawlTime ==
  \A r \in Runs : pc[r] = "saved" =>
    \A l \in BatchLinks(batch[r]) :
      /\ agents[l].last_updated = crawl_time[r]
      /\ ~pre_agents[r][l].exists => agents[l].first_seen = crawl_time[r]

\* The records of res have pairwise distinct links.
DistinctLinks(res) ==
  \A i, j \in DOMAIN res : i # j => res[i].link # res[j].link

\* C15: the batch crawl() returns has pairwise distinct, non-empty links: a
\* link extracted more than once (twice in Trending, or in Top Picks and in
\* Trending) appears once.
C15_BatchLinksDistinct ==
  cpc = "returned" =>
    /\ DistinctLinks(mapped_agents)
    /\ \A i \in DOMAIN mapped_agents : mapped_agents[i].link # NoUrl

\* C16: every record of the batch crawl() returns has rank >= 1, whatever
\* its rank text (a text whose first number is 0 included) and position.
C16_RankAtLeastOne ==
  cpc = "returned" =>
    \A i \in DOMAIN mapped_agents : mapped_agents[i].rank >= 1

\* The name of a merged record: the detail page's title if there is one,
\* else the list title.
NameOf(a) ==
  IF a.agent_name.tag = "str" /\ a.agent_name.val # "" THEN a.agent_name.val
  ELSE a.title

\* The positions of all_agents with a non-empty link and a non-empty name,
\* and the position the k-th of them has in all_agents.
Kept == {i \in DOMAIN all_agents :
           all_agents[i].agent_url # NoUrl /\ NameOf(all_agents[i]) # ""}
InputOf(k) == CHOOSE i \in Kept : Cardinality({j \in Kept : j <= i}) = k

\* C17: the batch crawl() returns holds exactly the merged records with a
\* non-empty link and a non-empty name (detail title, else list title), so
\* no record without link or name is in it.
C17_InvalidRecordsDropped ==
  cpc = "returned" =>
    /\ Len(mapped_agents) = Cardinality(Kept)
    /\ \A k \in DOMAIN mapped_agents :
         /\ mapped_agents[k].link = all_agents[InputOf(k)].agent_url
         /\ mapped_agents[k].name = NameOf(all_agents[InputOf(k)])
         /\ mapped_agents[k].link # NoUrl
         /\ mapped_agents[k].name # ""

\* crawl() returned a batch from which it dropped a record with no detail
\* title and an empty list title, and in which it kept another.
C17_Witness ==
  /\ cpc = "returned"
  /\ mapped_agents # <<>>
  /\ \E i \in DOMAIN all_agents :
       /\ i \notin Kept
       /\ all_agents[i].agent_name = NoneStr
       /\ all_agents[i].title = ""

\* The value of a run of digits, read from the left.
RECURSIVE Decimal(_, _)
Decimal(ds, acc) ==
  IF ds = <<>> THEN acc ELSE Decimal(Tail(ds), acc * 10 + DigitVal(Head(ds)))

\* The first integer substring of a rank entry, or pos when the entry is
\* missing or has no digit.
FirstIntegerOr(rk, pos) ==
  LET t == rk.text
      D == {i \in DOMAIN t : t[i] \in Digits}
  IN IF ~rk.key \/ D = {} THEN pos
     ELSE LET i == CHOOSE m \in D : \A n \in D : m <= n
              j == CHOOSE m \in D :
                     /\ \A n \in i..m : n \in D
                     /\ m + 1 \notin D
          IN Decimal(SubSeq(t, i, j), 0)

\* C18: each record of the returned batch has as rank the first integer
\* substring of its rank text or, without a rank text or without a digit in
\* it, its 1-based position in the merged input; the records are in input
\* order.
C18_RankResolved ==
  cpc = "returned" =>
    \A k \in DOMAIN mapped_agents :
      /\ k <= Cardinality(Kept)
      /\ mapped_agents[k].link = all_agents[InputOf(k)].agent_url
      /\ mapped_agents[k].rank =
           FirstIntegerOr(all_agents[InputOf(k)].rank, InputOf(k))

\* The returned batch has a record of rank 3 from the text "#3 of 50", a
\* record without rank text that took its input position, which is not its
\* output position, and a record of higher rank before one of lower rank.
C18_Witness ==
  /\ cpc = "returned"
  /\ \E k \in DOMAIN mapped_agents :
       /\ k <= Cardinality(Kept)
       /\ Len(all_agents[InputOf(k)].rank.text) > 2
       /\ mapped_agents[k].rank = 3
  /\ \E k \in DOMAIN mapped_agents :
       /\ k <= Cardinality(Kept)
       /\ ~all_agents[InputOf(k)].rank.key
       /\ InputOf(k) # k
       /\ mapped_agents[k].rank = InputOf(k)
  /\ \E k1, k2 \in DOMAIN mapped_agents :
       k1 < k2 /\ mapped_agents[k1].rank > mapped_agents[k2].rank

\* C19: crawl() makes at most max_retries attempts, each with at most one
\* navigation; it sleeps retry_delay once before every attempt but the
\* first and not after the last; and when the last attempt fails crawl()
\* raises: nothing was extracted, nothing is returned, nothing follows.
C19_RetriesThenRaises ==
  /\ [](/\ attempt < max_retries
        /\ Len(navigated) <= attempt + 1
        /\ sleeps = attempt
        /\ cpc = "sleep" => attempt + 1 < max_retries
        /\ cpc = "nav_raised" =>
             /\ attempt = max_retries - 1
             /\ all_agents = <<>>
             /\ mapped_agents = <<>>)
  /\ [][cpc = "nav_raised" => cpc' = "nav_raised"]_vars

\* crawl() raised after max_retries navigations that all failed.
C19_Witness ==
  cpc = "nav_raised" /\ Len(navigated) = max_retries /\ sleeps = max_retries - 1

\* C20: at most one browser is running at any time, and it is the one the
\* crawler holds; while crawl() waits for, or starts, a further attempt it
\* holds no browser and no driver; and a navigation runs in a browser no
\* earlier navigation ran in.
C20_FreshBrowserPerAttempt ==
  /\ Cardinality(live) <= 1
  /\ live = IF browser = 0 THEN {} ELSE {browser}
  /\ (cpc = "sleep" \/ (cpc = "init" /\ attempt > 0)) =>
       browser = 0 /\ ~playwright /\ ~page
  /\ \A i, j \in DOMAIN navigated : i # j => navigated[i] # navigated[j]
  /\ cpc = "goto" => \A i \in DOMAIN navigated : navigated[i] # browser

\* A third navigation is about to run, in a browser launched after two
\* failed navigations.
C20_Witness ==
  cpc = "goto" /\ Len(navigated) = 2 /\ browser # 0 /\ attempt = 2

\* crawl() has exited: it returned or an exception left it.
ExitPcs == {"returned", "raised", "nav_raised", "interrupted"}

\* C21: when crawl() has exited, by return, extraction error, exhausted
\* retries or KeyboardInterrupt at any point, the browser is released:
\* browser, page and playwright are None and no browser is running.
C21_ReleasedOnEveryExit ==
  cpc \in ExitPcs => browser = 0 /\ ~page /\ ~playwright /\ live = {}

\* C23: a non-empty batch that crawl() returns, which its callers pass to
\* save_agents, comes from list extraction that was not cut short.
C23_OnlyCompleteBatches ==
  (cpc = "returned" /\ mapped_agents # <<>>) => ~cut

\* C24: the store after a commit is one that some serial order of the
\* save_agents calls produces.  A call run alone leaves exactly its batch
\* links active, so after a commit the active links are those of the
\* committing call's batch (it ran last) or those of the batch committed
\* just before (it ran first).
C24_Serializable ==
  [][\A r \in Runs : Commits(r) =>
       \/ SelectActiveLinks(agents') = BatchLinks(batch[r])
       \/ SelectActiveLinks(agents') = BatchLinks(last_batch)]_vars

\* C28: in the committed store and in what every open save_agents
\* transaction sees after each of its statements, every rank_history row
\* names a link that has an agents row; and a link never has two rows: no
\* two open transactions hold a row of the same link.
C28_StoreConstraints ==
  /\ \A i \in DOMAIN rank_history : agents[rank_history[i].agent_link].exists
  /\ \A r \in Runs : \A i \in DOMAIN tx_hist[r] :
       View(r, tx_hist[r][i].agent_link).exists
  /\ \A r1, r2 \in Runs : \A l \in Links :
       (tx_agents[r1][l].exists /\ tx_agents[r2][l].exists) => r1 = r2

\* Inside a transaction: a history row has been inserted for a link whose
\* agents row this transaction inserted and has not yet committed, while
\* another transaction is open.
C28_Witness ==
  \E r \in Runs :
    /\ pc[r] \in {"upsert", "history", "commit"}
    /\ tx_hist[r] # <<>>
    /\ ~agents[tx_hist[r][1].agent_link].exists
    /\ \E o \in Runs \ {r} : pc[o] \in TxPcs

\* C22: a KeyboardInterrupt raised after the navigation succeeded always
\* leaves crawl() as KeyboardInterrupt: once one was raised, crawl() is
\* interrupted, it does not go on and return.
C22_InterruptPropagates ==
  ki => cpc = "interrupted"

\* The step in which _extract_detail_page_info logs an error for an item.
EnrichmentFails == detail_errors' # detail_errors

C25_StopsAfterTwoStale == stale <= 2

\* The largest rank number among the captured records, 0 without any.
MaxCaptured ==
  LET nums == {0} \cup {FirstIntegerOr(top_picks[i].rank, 0) :
                          i \in DOMAIN top_picks}
  IN CHOOSE m \in nums : \A n \in nums : n <= m

\* C29: target_items of a pass holds at most 6 of the visible ranked
\* items in ascending rank order; with nothing captured yet they are the
\* ones of smallest rank (all of them when there are 6 or fewer), and
\* otherwise each has a rank above the largest captured rank.
C29_WindowSelection ==
  [][(cpc = "picks" /\ cpc' = "pick_items") =>
       LET items == ItemsWithRank(visible')
           t == target_items'
       IN /\ Len(t) <= 6
          /\ AscendingRank(t)
          /\ \A i \in DOMAIN t : \E j \in DOMAIN items : items[j] = t[i]
          /\ top_picks = <<>> =>
               /\ Len(t) = IF Len(items) < 6 THEN Len(items) ELSE 6
               /\ \A j \in DOMAIN items :
                    (\A i \in DOMAIN t : t[i] # items[j]) =>
                      \A i \in DOMAIN t : t[i].rank <= items[j].rank
          /\ top_picks # <<>> =>
               \A i \in DOMAIN t : t[i].rank > MaxCaptured]_vars

\* A later pass: six records were captured from a window of more than six
\* cards, and the pass now chose cards while visible cards of lower rank
\* stay out.
C29_Witness ==
  /\ cpc = "pick_items"
  /\ Len(top_picks) = 6
  /\ click_count > 0
  /\ target_items # <<>>
  /\ \E j \in DOMAIN visible :
       re_search_digits(visible[j].rank_text) # <<>>
         /\ IntOf(re_search_digits(visible[j].rank_text)) <= MaxCaptured

\* C30: top_picks never holds two records of one URL, and seen_urls is
\* the set of the URLs of the records in top_picks.
C30_SeenIsCaptured ==
  /\ \A i, j \in DOMAIN top_picks :
       i # j => top_picks[i].agent_url # top_picks[j].agent_url
  /\ seen_urls = {top_picks[i].agent_url : i \in DOMAIN top_picks}

CarouselPcs == {"picks", "pick_retry", "pick_items", "pick_click", "poll"}

\* How far a pass is: the read, the second read, the items, the button,
\* then the polls.
PassPosition ==
  CASE cpc = "picks" -> 0
    [] cpc = "pick_retry" -> 1
    [] cpc = "pick_items" -> 2
    [] cpc = "pick_click" -> 3
    [] cpc = "poll" -> 4 + (IF new_items_found THEN PollLimit + 1 ELSE waited)
    [] OTHER -> 0

\* What is left of the loop: the clicks still allowed, less the part of
\* the current pass already done.
LoopMeasure == (max_clicks + 1 - click_count) * (PollLimit + 6) - PassPosition

\* C31: the click loop ends: while it runs, every step brings it nearer to
\* its end (a measure that cannot fall below 0 falls with every step);
\* click_count only changes by a step of one, taken when a pass goes back to
\* the head of the loop, and a pass only goes back to the head that way;
\* click_count never exceeds 50.
C31_ClickLoopTerminates ==
  /\ [](click_count <= 50)
  /\ [](cpc \in CarouselPcs => LoopMeasure > 0)
  /\ [][(cpc \in CarouselPcs /\ cpc' \in CarouselPcs) =>
          LoopMeasure' < LoopMeasure]_vars
  /\ [][click_count' # click_count =>
          click_count' = click_count + 1 /\ cpc' = "picks"]_vars
  /\ [][(cpc \in CarouselPcs \ {"picks"} /\ cpc' = "picks") =>
          click_count' = click_count + 1]_vars

\* The loop ended because click_count reached 50 on a carousel that went
\* on offering a new card after every click.
C31_Witness ==
  /\ cpc = "picked"
  /\ click_count = 50
  /\ Len(top_picks) = 50
  /\ empty_stop = "none"

\* C32: new content is accepted only when the last two polls both read a
\* changed set.
C32_TwoConsecutiveChanged ==
  new_items_found => (last_poll = "changed" /\ prev_poll = "changed")

\* C33: the poll loop makes at most 40 polls, and however it is left
\* (content accepted or not) the pass counts its click and goes back to
\* the head of the click loop.
C33_PollLoopBounded ==
  /\ [](waited <= 40)
  /\ [][(cpc = "poll" /\ cpc' # "poll") =>
          cpc' = "picks" /\ click_count' = click_count + 1]_vars
  /\ [][(cpc = "poll" /\ cpc' = "poll") =>
          (waited' = waited + 1 \/ new_items_found')]_vars

\* Forty polls saw no change: the loop is left with new_items_found false.
C33_Witness ==
  /\ cpc = "poll"
  /\ waited = 40
  /\ ~new_items_found
  /\ last_poll = "same"
  /\ click_count = 1

\* C34: an extractor that found no card and gave up had read the cards
\* twice.
C34_ZeroReadRetried ==
  empty_stop # "none" => reads = 2

\* The number read from the rank text of a captured record.
ParsedRank(rec) == FirstIntegerOr(rec.rank, 0)

\* C39: the records of top_picks are in non-decreasing order of the
\* number in their rank text, and a pass that finds records already
\* captured only appends records whose number is above every one of them.
C39_CapturedInRankOrder ==
  /\ [](\A i, j \in DOMAIN top_picks :
          i < j => ParsedRank(top_picks[i]) <= ParsedRank(top_picks[j]))
  /\ [][(top_picks # <<>> /\ top_picks' # top_picks) =>
          /\ Len(top_picks') > Len(top_picks)
          /\ SubSeq(top_picks', 1, Len(top_picks)) = top_picks
          /\ \A j \in (Len(top_picks) + 1)..Len(top_picks') :
               ParsedRank(top_picks'[j]) > MaxCaptured]_vars

\* The loop has ended with records captured while the carousel shows a
\* card that was never seen and whose rank is below the largest captured.
C39_Witness ==
  /\ cpc = "picked"
  /\ click_count > 0
  /\ top_picks # <<>>
  /\ \E j \in DOMAIN visible :
       /\ urljoin(visible[j].href) # NoUrl
       /\ urljoin(visible[j].href) \notin seen_urls
       /\ re_search_digits(visible[j].rank_text) # <<>>
       /\ IntOf(re_search_digits(visible[j].rank_text)) < MaxCaptured

\* C35: update_config called on a running scheduler with enabled = True,
\* or with no enabled argument while the manager is enabled, leaves the
\* scheduler running, the manager enabled and the crawl job scheduled with
\* the interval now configured; update_config with enabled = False leaves
\* no crawl job.
C35_UpdateConfigRestarts ==
  [][\A h \in IntervalArgs, e \in EnabledArgs :
       UpdateConfig(h, e) =>
         /\ (scheduler = "running" /\ (e = <<TRUE>> \/ (e = <<>> /\ enabled))) =>
              /\ scheduler' = "running"
              /\ enabled'
              /\ job' = interval_hours'
              /\ h # <<>> => interval_hours' = h[1]
         /\ e = <<FALSE>> => job' = 0]_vars

\* C36: a task that run_crawl_task has moved to running is completed or
\* failed once the coroutine has ended, whatever ended it.  (A task whose
\* coroutine has ended keeps its status for ever, so one that is still
\* running then never reaches completed or failed.)
C36_EndedTaskIsTerminal ==
  \A r \in Runs :
    (pc[r] = "done" /\ task_status[r] # "none") =>
      task_status[r] \in {"completed", "failed"}

EmptyHanded(r) == InFlight(r) /\ pc[r] # "crawling" /\ batch[r] = <<>>

\* C38: a run whose crawl returned an empty batch (or raised) goes from the
\* crawl to its except handler or, in once mode and in the daemon job, to
\* its early return, and from there ends; it opens no transaction,
\* commits nothing, and no step taken while it holds the empty batch
\* changes agents or rank_history.
C38_EmptyBatchSkipsSave ==
  /\ [][\A r \in Runs :
          (pc[r] = "crawling" /\ pc'[r] # "crawling" /\ batch'[r] = <<>>) =>
            /\ pc'[r] \in {"except", "nodata"}
            /\ pc'[r] = "nodata" => kind[r] \in {"once", "daemon"}
            /\ agents' = agents /\ rank_history' = rank_history]_vars
  /\ [][\A r \in Runs :
          EmptyHanded(r) =>
            /\ pc[r] \in {"pending", "queued", "except", "nodata"}
            /\ pc'[r] \in {pc[r], "done"} \/ pc[r] \in {"pending", "queued"}
            /\ agents' = agents /\ rank_history' = rank_history
            /\ tx_start'[r] = 0 /\ ~committed'[r]]_vars

\* The daemon job is returning early on an empty batch after an earlier
\* run ended the same way, and the agent that was active is still active.
C38_Witness ==
  \E r, q \in Runs :
    /\ pc[r] = "nodata"
    /\ kind[r] = "daemon"
    /\ pc[q] = "done"
    /\ outcome[q] = "nodata"
    /\ agents["/a"].is_active

====
